---------------------------- MODULE Spec2Model ----------------------------
(***************************************************************************)
(* A model of the Puerto-Rico-migration data pipeline: the Census API      *)
(* download scripts (one blocking GET per year, a rate per row, one CSV    *)
(* per year), the IPUMS extract download and its per-state aggregation,    *)
(* and the chart generation scripts that read the CSVs back.               *)
(*                                                                         *)
(* Numbers.  A data frame cell is a record [k, n]:                         *)
(*   k = "str"  the JSON string of the integer n, as the API returned it   *)
(*   k = "null" a JSON null / non-numeric cell                             *)
(*   k = "num"  the number n                                               *)
(*   k = "nan"  NaN;  k = "inf" +inf (n = 1) or -inf (n = -1)              *)
(* A rate is kept in units of 10^-RoundDigits percent, so 12.34 % is the   *)
(* number 1234.  Floating point error below that unit is not modelled.     *)
(***************************************************************************)
EXTENDS Integers, Sequences, FiniteSets, TLC

VARIABLES
    pc,         \* control position of the running script
    script,     \* the script that runs
    year,       \* loop variable of "for year in years"
    api,        \* what the remote API serves: data[1:] of a Census response, the
                \* microdata of an IPUMS extract
    files,      \* the output directory: year -> CSV file
    requested,  \* the years the request (requests.get, submit_extract) was made
                \* for, in call order
    failed,     \* the years whose try block ended in an except clause
    api_key,    \* API_KEY of download_ipums_data
    wait_time,  \* wait_time of the polling loop
    check_count, \* the extract_status calls that returned for the extract at hand
    status,     \* the status the last extract_status call returned
    downloaded, \* the download directories: year -> what download_extract left there
    fs,         \* the input files a chart script finds, and facts of their content
    html,       \* the HTML files a chart script has written
    printed,    \* the messages a chart script has printed, in order
    called,     \* the chart functions called so far, in order
    table,      \* table_key of the outer loop of download_hispanic_comparison_data
    slept,      \* time.sleep(1) has been called since the last requests.get
    run,        \* which run of the script this is, counted from 1
    before,     \* the output directory as this run found it
    returned    \* what the function under test returned, or that it raised

ipumsVars == <<api_key, wait_time, check_count, status, downloaded>>
vizVars == <<fs, html, printed, called>>
censusVars == <<table, slept, run, before>>
vars == <<pc, script, year, api, files, requested, failed, ipumsVars, vizVars,
          censusVars, returned>>

---------------------------------------------------------------------------
(* Bounds of the model *)

\* largest count the API serves in a cell
MaxCount == 3
\* most requests of one run that the environment lets fail
MaxFailures == 2
\* most person records in the microdata of an IPUMS extract
MaxRecords == 3

---------------------------------------------------------------------------
(* Program constants *)

\* years = range(2010, 2024)
FirstYear == 2010
StopYear == 2024
Years == FirstYear .. (StopYear - 1)

\* (... * 100).round(2)
Percent == 100
RoundDigits == 2

\* download_ipums_data.py
PUERTO_RICO_BPL == 11000
max_wait == 300
\* time.sleep(10); wait_time += 10
PollInterval == 10

---------------------------------------------------------------------------
(* Cells *)

Str(n) == [k |-> "str", n |-> n]
Null == [k |-> "null", n |-> 0]
Num(n) == [k |-> "num", n |-> n]
NaN == [k |-> "nan", n |-> 0]
PosInf == [k |-> "inf", n |-> 1]
NegInf == [k |-> "inf", n |-> -1]

IsNum(x) == x.k = "num"

\* pd.to_numeric(column, errors='coerce')
ToNumeric(c) == IF c.k = "str" THEN Num(c.n) ELSE IF c.k = "num" THEN c ELSE NaN

\* column + column, column - column (NaN propagates)
Add(a, b) == IF IsNum(a) /\ IsNum(b) THEN Num(a.n + b.n) ELSE NaN
Sub(a, b) == IF IsNum(a) /\ IsNum(b) THEN Num(a.n - b.n) ELSE NaN

RECURSIVE Pow10(_)
Pow10(d) == IF d = 0 THEN 1 ELSE 10 * Pow10(d - 1)

\* numpy's round of the quotient a / b (b > 0): to nearest, ties to even
RoundHalfEven(a, b) ==
    LET q == a \div b
        r == a % b
    IN  IF 2 * r < b THEN q
        ELSE IF 2 * r > b THEN q + 1
        ELSE IF q % 2 = 0 THEN q ELSE q + 1

\* A positive float64: the 53 bits of its significand, the first of them 1,
\* and the power of two that scales them.
Significand == 53
Float64(bits, exp) == [bits |-> bits, exp |-> exp]

\* the binary digits of n
RECURSIVE Bin(_)
Bin(n) == IF n = 0 THEN <<>> ELSE Append(Bin(n \div 2), n % 2)

\* bits + 1, with the carry out of the first bit: the last 0 becomes 1 and
\* the digits after it 0
Increment(bits) ==
    LET zeros == { i \in DOMAIN bits : bits[i] = 0 }
        z == CHOOSE i \in zeros : \A j \in zeros : j <= i
    IN  IF zeros = {} THEN [bits |-> [i \in DOMAIN bits |-> 0], carry |-> 1]
        ELSE [bits |-> [i \in DOMAIN bits |->
                          IF i < z THEN bits[i] ELSE IF i = z THEN 1 ELSE 0],
              carry |-> 0]

\* round to nearest, ties to even, of the value bits * 2^exp (plus a
\* fraction of the last place when sticky) to a float64; bits has more than
\* Significand digits
RoundToFloat64(bits, sticky, exp) ==
    LET kept == SubSeq(bits, 1, Significand)
        guard == bits[Significand + 1]
        tail == sticky \/ \E i \in (Significand + 2) .. Len(bits) : bits[i] = 1
        up == guard = 1 /\ (tail \/ kept[Significand] = 1)
        e == exp + Len(bits) - Significand
        i == Increment(kept)
    IN  IF ~up THEN Float64(kept, e)
        ELSE IF i.carry = 0 THEN Float64(i.bits, e)
        ELSE Float64(<<1>> \o SubSeq(i.bits, 1, Significand - 1), e + 1)

\* 2^k modulo d, by squaring (d below 2^15)
RECURSIVE PowMod(_, _)
PowMod(k, d) ==
    IF k = 0 THEN 1 % d
    ELSE IF k % 2 = 1 THEN (2 * PowMod(k - 1, d)) % d
    ELSE LET h == PowMod(k \div 2, d) IN (h * h) % d

\* the next n binary digits of r / d after the point, and the remainder
\* left after them (r < d): digit i is that of 2 * (r * 2^(i-1) modulo d) / d
DivBits(r, d, n) ==
    [i \in 1 .. n |-> IF 2 * ((r * PowMod(i - 1, d)) % d) >= d THEN 1 ELSE 0]
DivRem(r, d, n) == (r * PowMod(n, d)) % d

\* n / d = (z.n / z.d) * 2^z.p with 1 <= z.n / z.d < 2
RECURSIVE Normalise(_, _, _)
Normalise(n, d, p) ==
    IF n >= 2 * d THEN Normalise(n, 2 * d, p + 1)
    ELSE IF n < d THEN Normalise(2 * n, d, p - 1)
    ELSE [n |-> n, d |-> d, p |-> p]

\* the float64 quotient n / d of two positive integers
Float64Div(n, d) ==
    LET z == Normalise(n, d, 0)
    IN  RoundToFloat64(<<1>> \o DivBits(z.n - z.d, z.d, Significand),
                       DivRem(z.n - z.d, z.d, Significand) # 0,
                       z.p - Significand)

\* the digits multiplied at a time: few enough for a limb times 10^4 to stay
\* below 2^31
Limb == Significand \div 4 + 1
\* the number whose binary digits are bits[lo .. hi]
RECURSIVE Chunk(_, _, _)
Chunk(bits, lo, hi) == IF lo > hi THEN 0 ELSE 2 * Chunk(bits, lo, hi - 1) + bits[hi]
\* the Limb binary digits of v
LimbBits(v) == [k \in 1 .. Limb |-> (v \div 2^(Limb - k)) % 2]

\* the digits of bits[1 .. i] * c + carry, Limb digits at a time
RECURSIVE MulBits(_, _, _, _)
MulBits(bits, c, i, carry) ==
    IF i <= Limb THEN Bin(Chunk(bits, 1, i) * c + carry)
    ELSE LET t == Chunk(bits, i - Limb + 1, i) * c + carry
         IN  MulBits(bits, c, i - Limb, t \div 2^Limb) \o LimbBits(t % 2^Limb)

\* the float64 product f * c, c a positive integer below 2^Limb
Float64Mul(f, c) == RoundToFloat64(MulBits(f.bits, c, Significand, 0), FALSE, f.exp)

\* the float64 that is t * 2^e exactly (0 < t < 2^31)
Float64Of(t, e) ==
    LET b == Bin(t)
    IN  Float64(b \o [i \in 1 .. (Significand - Len(b)) |-> 0],
                e - (Significand - Len(b)))

\* f < g
Float64Less(f, g) ==
    \/ f.exp < g.exp
    \/ /\ f.exp = g.exp
       /\ \E i \in 1 .. Significand :
             /\ f.bits[i] < g.bits[i]
             /\ \A j \in 1 .. (i - 1) : f.bits[j] = g.bits[j]

\* (n / d * 100).round(2) of two positive integers, in hundredths: the float64
\* quotient is multiplied by 100, numpy's round multiplies by 10^2 and takes
\* rint (ties to even) of that float64.  The product is within 2^-50 of
\* 10000 n / d, so rint gives the nearest integer of the exact value unless
\* that lies halfway between two integers, where the rounding errors of the
\* three operations decide.
RoundedPercent(n, d) ==
    LET a == n * Percent * Pow10(RoundDigits)
        q == a \div d
        half == Float64Of(2 * q + 1, -1)
        product == Float64Mul(Float64Mul(Float64Div(n, d), Percent), Pow10(RoundDigits))
    IN  IF 2 * (a % d) # d THEN RoundHalfEven(a, d)
        ELSE IF Float64Less(product, half) THEN q
        ELSE IF Float64Less(half, product) THEN q + 1
        ELSE IF q % 2 = 0 THEN q ELSE q + 1

Abs(n) == IF n < 0 THEN -n ELSE n

\* Rate with the operands of the division exchanged
RateSwapped(num, den) ==
    IF ~IsNum(num) \/ ~IsNum(den) THEN NaN
    ELSE IF num.n = 0
         THEN (IF den.n = 0 THEN NaN ELSE IF den.n > 0 THEN PosInf ELSE NegInf)
         ELSE IF den.n = 0 THEN Num(0)
         ELSE IF (num.n > 0) = (den.n > 0)
              THEN Num(RoundedPercent(Abs(den.n), Abs(num.n)))
              ELSE Num(-RoundedPercent(Abs(den.n), Abs(num.n)))

\* (num / den * 100).round(2) on float64 columns, in hundredths: x/0 is
\* +-inf, 0/0 and NaN are NaN
Rate(num, den) ==
    IF ~IsNum(num) \/ ~IsNum(den) THEN NaN
    ELSE IF den.n = 0
         THEN (IF num.n = 0 THEN NaN ELSE IF num.n > 0 THEN PosInf ELSE NegInf)
         ELSE IF num.n = 0 THEN Num(0)
         ELSE IF (num.n > 0) = (den.n > 0)
              THEN Num(RoundedPercent(Abs(num.n), Abs(den.n)))
              ELSE Num(-RoundedPercent(Abs(num.n), Abs(den.n)))

---------------------------------------------------------------------------
(* The Census download scripts: what each does to one row of a response.   *)
(* r is a row of pd.DataFrame(rows, columns=headers), y the requested year *)

\* download_census_data: the cells are written as fetched
CensusRow(y, r) ==
    [NAME |-> r.NAME, B03001_005E |-> r.B03001_005E, state |-> r.state, year |-> y]

\* download_county_data: the cells of the for=county:* response are written
\* as fetched
CountyRow(y, r) ==
    [NAME |-> r.NAME, B03001_005E |-> r.B03001_005E, state |-> r.state,
     county |-> r.county, year |-> y]

PovertyRow(y, r) ==
    LET total == ToNumeric(r.B17001_001E)
        below == ToNumeric(r.B17001_002E)
    IN  [NAME |-> r.NAME, total_population |-> total, below_poverty_level |-> below,
         state |-> r.state, year |-> y,
         poverty_rate |-> Rate(below, total)]

HousingRow(y, r) ==
    [NAME |-> r.NAME, median_gross_rent |-> ToNumeric(r.B25064_001E),
     median_home_value |-> ToNumeric(r.B25077_001E), state |-> r.state, year |-> y]

MigrationRow(y, r) ==
    LET total == ToNumeric(r.B07001_001E)
        same == ToNumeric(r.B07001_002E)
        moved_total == Sub(total, same)
    IN  [NAME |-> r.NAME, total_population |-> total, same_house_1yr_ago |-> same,
         moved_same_county |-> ToNumeric(r.B07001_003E),
         moved_different_county_same_state |-> ToNumeric(r.B07001_004E),
         moved_different_state |-> ToNumeric(r.B07001_005E),
         moved_from_abroad |-> ToNumeric(r.B07001_006E),
         state |-> r.state, year |-> y,
         moved_total |-> moved_total,
         migration_rate |-> Rate(moved_total, total),
         moved_from_different_state_rate |-> Rate(ToNumeric(r.B07001_005E), total),
         moved_from_abroad_rate |-> Rate(ToNumeric(r.B07001_006E), total)]

CommutingRow(y, r) ==
    LET total == ToNumeric(r.B08301I_001E)
        drove_alone == ToNumeric(r.B08301I_003E)
        carpooled == ToNumeric(r.B08301I_004E)
        public_transit == ToNumeric(r.B08301I_010E)
        walked == ToNumeric(r.B08301I_016E)
        other_means == ToNumeric(r.B08301I_017E)
        worked_from_home == ToNumeric(r.B08301I_018E)
    IN  [NAME |-> r.NAME, total_workers_16plus |-> total,
         B08301I_003E |-> drove_alone, B08301I_004E |-> carpooled,
         B08301I_010E |-> public_transit, B08301I_016E |-> walked,
         B08301I_017E |-> other_means, B08301I_018E |-> worked_from_home,
         state |-> r.state, year |-> y,
         drove_alone |-> drove_alone, carpooled |-> carpooled,
         public_transit |-> public_transit, walked |-> walked,
         other_means |-> other_means, worked_from_home |-> worked_from_home,
         drove_alone_rate |-> Rate(drove_alone, total),
         carpooled_rate |-> Rate(carpooled, total),
         public_transit_rate |-> Rate(public_transit, total),
         walked_rate |-> Rate(walked, total),
         worked_from_home_rate |-> Rate(worked_from_home, total)]

HealthInsuranceRow(y, r) ==
    LET total == ToNumeric(r.B27001I_001E)
        with == ToNumeric(r.B27001I_003E)
        without == ToNumeric(r.B27001I_009E)
    IN  [NAME |-> r.NAME, total_population |-> total, with_insurance |-> with,
         without_insurance |-> without, state |-> r.state, year |-> y,
         insurance_coverage_rate |-> Rate(with, total),
         uninsured_rate |-> Rate(without, total)]

LanguageRow(y, r) ==
    LET total == ToNumeric(r.B16001I_001E)
        only == ToNumeric(r.B16001I_002E)
        c3 == ToNumeric(r.B16001I_003E)
        c4 == ToNumeric(r.B16001I_004E)
        c5 == ToNumeric(r.B16001I_005E)
        c6 == ToNumeric(r.B16001I_006E)
        speaks_spanish == Add(Add(Add(c3, c4), c5), c6)
        limited == Add(c5, c6)
    IN  [NAME |-> r.NAME, total_population_5plus |-> total,
         speaks_english_only |-> only, spanish_english_very_well |-> c3,
         spanish_english_well |-> c4, spanish_english_not_well |-> c5,
         spanish_english_not_at_all |-> c6, state |-> r.state, year |-> y,
         speaks_spanish |-> speaks_spanish,
         limited_english_proficiency |-> limited,
         english_only_rate |-> Rate(only, total),
         spanish_speaking_rate |-> Rate(speaks_spanish, total),
         limited_english_rate |-> Rate(limited, total)]

\* download_hispanic_comparison_data, table_key == 'poverty'
HispanicPovertyRow(y, r) ==
    LET total == ToNumeric(r.B17001I_001E)
        below == ToNumeric(r.B17001I_002E)
    IN  [NAME |-> r.NAME, total_population |-> total, below_poverty_level |-> below,
         state |-> r.state, year |-> y,
         poverty_rate |-> Rate(below, total)]

\* download_hispanic_comparison_data, table_key == 'health_insurance'
HispanicHealthRow(y, r) == HealthInsuranceRow(y, r)

\* the scripts with one request per year
LoopScripts == {"census", "county", "poverty", "housing", "migration",
                "commuting", "health_insurance", "language"}
\* the scripts (and tables of the Hispanic comparison script) that compute a rate
RateScripts == {"poverty", "migration", "commuting", "health_insurance", "language",
                "hispanic_poverty", "hispanic_health_insurance"}

\* the scripts that test os.path.exists(output_file) before the request
SkipsExisting(s) == s \in {"county", "commuting", "health_insurance", "language"}

RowOf(s, y, r) ==
    CASE s = "census" -> CensusRow(y, r)
      [] s = "county" -> CountyRow(y, r)
      [] s = "poverty" -> PovertyRow(y, r)
      [] s = "housing" -> HousingRow(y, r)
      [] s = "migration" -> MigrationRow(y, r)
      [] s = "commuting" -> CommutingRow(y, r)
      [] s = "health_insurance" -> HealthInsuranceRow(y, r)
      [] s = "language" -> LanguageRow(y, r)
      [] s = "hispanic_poverty" -> HispanicPovertyRow(y, r)
      [] s = "hispanic_health_insurance" -> HispanicHealthRow(y, r)

\* TryBody taking rows = data[2:]
TryBodyDropsRow(s, y, rows) ==
    IF rows = <<>> THEN <<>>
    ELSE [i \in 1 .. Len(rows) - 1 |-> RowOf(s, y, rows[i + 1])]

\* the body of the try block past response.json(): the frame handed to to_csv
TryBody(s, y, rows) == [i \in 1 .. Len(rows) |-> RowOf(s, y, rows[i])]

\* a CSV file of the output directory
NoFile == [exists |-> FALSE, rows |-> <<>>]
Csv(rows) == [exists |-> TRUE, rows |-> rows]

---------------------------------------------------------------------------
(* What the Census API serves *)

\* a cell of a response: a JSON null or the decimal string of a count
Cells == {Null} \cup {Str(n) : n \in 0 .. MaxCount}

NewYork == [NAME |-> "New York", state |-> "36"]
Florida == [NAME |-> "Florida", state |-> "12"]

\* the county of state g that a for=county:* response lists
CountyOf(g) ==
    IF g.state = "36" THEN [NAME |-> "Kings County, New York", county |-> "047"]
    ELSE [NAME |-> "Miami-Dade County, Florida", county |-> "086"]

\* the row of geography g for script s (its get=NAME,<variables> list) with the
\* table's total in den and every other estimate in part
RawRow(s, g, den, part) ==
    CASE s = "census" ->
           [NAME |-> g.NAME, B03001_005E |-> part, state |-> g.state]
      [] s = "county" ->
           [NAME |-> CountyOf(g).NAME, B03001_005E |-> part, state |-> g.state,
            county |-> CountyOf(g).county]
      [] s = "poverty" ->
           [NAME |-> g.NAME, B17001_001E |-> den, B17001_002E |-> part, state |-> g.state]
      [] s = "housing" ->
           [NAME |-> g.NAME, B25064_001E |-> den, B25077_001E |-> part, state |-> g.state]
      [] s = "migration" ->
           [NAME |-> g.NAME, B07001_001E |-> den, B07001_002E |-> part,
            B07001_003E |-> part, B07001_004E |-> part, B07001_005E |-> part,
            B07001_006E |-> part, state |-> g.state]
      [] s = "commuting" ->
           [NAME |-> g.NAME, B08301I_001E |-> den, B08301I_003E |-> part,
            B08301I_004E |-> part, B08301I_010E |-> part, B08301I_016E |-> part,
            B08301I_017E |-> part, B08301I_018E |-> part, state |-> g.state]
      [] s = "health_insurance" ->
           [NAME |-> g.NAME, B27001I_001E |-> den, B27001I_003E |-> part,
            B27001I_009E |-> part, state |-> g.state]
      [] s = "language" ->
           [NAME |-> g.NAME, B16001I_001E |-> den, B16001I_002E |-> part,
            B16001I_003E |-> part, B16001I_004E |-> part, B16001I_005E |-> part,
            B16001I_006E |-> part, state |-> g.state]

\* every row the API can serve to a rate-computing script for New York
RawRows(s) ==
    CASE s = "poverty" ->
           [NAME : {"New York"}, B17001_001E : Cells, B17001_002E : Cells, state : {"36"}]
      [] s = "migration" ->
           [NAME : {"New York"}, B07001_001E : Cells, B07001_002E : Cells,
            B07001_003E : Cells, B07001_004E : Cells, B07001_005E : Cells,
            B07001_006E : Cells, state : {"36"}]
      [] s = "commuting" ->
           [NAME : {"New York"}, B08301I_001E : Cells, B08301I_003E : Cells,
            B08301I_004E : Cells, B08301I_010E : Cells, B08301I_016E : Cells,
            B08301I_017E : Cells, B08301I_018E : Cells, state : {"36"}]
      [] s \in {"health_insurance", "hispanic_health_insurance"} ->
           [NAME : {"New York"}, B27001I_001E : Cells, B27001I_003E : Cells,
            B27001I_009E : Cells, state : {"36"}]
      [] s = "language" ->
           [NAME : {"New York"}, B16001I_001E : Cells, B16001I_002E : Cells,
            B16001I_003E : Cells, B16001I_004E : Cells, B16001I_005E : Cells,
            B16001I_006E : Cells, state : {"36"}]
      [] s = "hispanic_poverty" ->
           [NAME : {"New York"}, B17001I_001E : Cells, B17001I_002E : Cells, state : {"36"}]

\* the data sets the API serves during a run, as <<geography, total, part>> rows
ApiTemplates ==
    { <<>>,
      << <<NewYork, Str(2), Str(1)>> >>,
      << <<NewYork, Str(2), Str(1)>>, <<Florida, Str(1), Str(1)>> >>,
      << <<NewYork, Str(2), Str(1)>>, <<Florida, Str(0), Str(0)>> >>,
      << <<Florida, Str(0), Str(1)>>, <<NewYork, Str(2), Str(1)>> >>,
      << <<NewYork, Str(2), Str(1)>>, <<NewYork, Str(1), Str(0)>> >>,
      << <<NewYork, Null, Str(1)>>, <<Florida, Str(2), Str(2)>> >> }

ApiRows(s, t) == [i \in 1 .. Len(t) |-> RawRow(s, t[i][1], t[i][2], t[i][3])]

\* the data set an earlier run fetched, whose files may still be in the directory
OldTemplate == << <<NewYork, Str(1), Str(1)>> >>
OldFile(s, y) == Csv(TryBody(s, y, ApiRows(s, OldTemplate)))

\* which years have a file when the run starts
PreExisting == {{}, {FirstYear}, Years}

---------------------------------------------------------------------------
(* A run of a Census download script: for year in range(2010, 2024) *)

\* the variables of the other programs, which a run does not touch
IpumsIdle ==
    /\ api_key = "" /\ wait_time = 0 /\ check_count = 0 /\ status = ""
    /\ downloaded = <<>>
VizIdle == fs = {} /\ html = {} /\ printed = <<>> /\ called = <<>>
\* the first run of a script, before any request
FirstRun == table = "" /\ slept = FALSE /\ run = 1 /\ before = files
\* no function under test has been called
NoCall == returned = <<>>

Init ==
    /\ pc = "loop"
    /\ script \in LoopScripts
    /\ year = FirstYear
    /\ \E t \in ApiTemplates : api = ApiRows(script, t)
    /\ \E pre \in PreExisting :
          files = [y \in Years |-> IF y \in pre THEN OldFile(script, y) ELSE NoFile]
    /\ requested = <<>>
    /\ failed = {}
    /\ IpumsIdle
    /\ VizIdle
    /\ FirstRun
    /\ NoCall

InLoop == pc = "loop" /\ year < StopYear

\* if os.path.exists(output_file): continue
Skips == SkipsExisting(script) /\ files[year].exists

SkipYear ==
    /\ InLoop
    /\ Skips
    /\ year' = year + 1
    /\ UNCHANGED <<pc, script, api, files, requested, failed, ipumsVars, vizVars, censusVars, returned>>

\* the request succeeds: the frame is built and df.to_csv(output_file) writes it
SaveYear ==
    /\ InLoop
    /\ ~Skips
    /\ requested' = Append(requested, year)
    /\ files' = [files EXCEPT ![year] = Csv(TryBody(script, year, api))]
    /\ year' = year + 1
    /\ slept' = TRUE
    /\ UNCHANGED <<pc, script, api, failed, ipumsVars, vizVars, table, run, before, returned>>

\* HttpErrorYear with the output file opened before the request is made
HttpErrorYearTruncates ==
    /\ InLoop
    /\ ~Skips
    /\ Cardinality(failed) < MaxFailures
    /\ requested' = Append(requested, year)
    /\ failed' = failed \cup {year}
    /\ files' = [files EXCEPT ![year] = Csv(<<>>)]
    /\ year' = year + 1
    /\ slept' = TRUE
    /\ UNCHANGED <<pc, script, api, ipumsVars, vizVars, table, run, before, returned>>

\* except requests.exceptions.HTTPError: print, go on
HttpErrorYear ==
    /\ InLoop
    /\ ~Skips
    /\ Cardinality(failed) < MaxFailures
    /\ requested' = Append(requested, year)
    /\ failed' = failed \cup {year}
    /\ year' = year + 1
    /\ slept' = TRUE
    /\ UNCHANGED <<pc, script, api, files, ipumsVars, vizVars, table, run, before, returned>>

\* ErrorYear leaving the function, as a return in the handler would
ErrorYearReturns ==
    /\ InLoop
    /\ ~Skips
    /\ Cardinality(failed) < MaxFailures
    /\ requested' = Append(requested, year)
    /\ failed' = failed \cup {year}
    /\ pc' = "done"
    /\ UNCHANGED <<script, year, api, files, ipumsVars, vizVars, censusVars, returned>>

\* except Exception: print, go on
ErrorYear ==
    /\ InLoop
    /\ ~Skips
    /\ Cardinality(failed) < MaxFailures
    /\ requested' = Append(requested, year)
    /\ failed' = failed \cup {year}
    /\ year' = year + 1
    /\ slept' = TRUE
    /\ UNCHANGED <<pc, script, api, files, ipumsVars, vizVars, table, run, before, returned>>

\* the range is exhausted: the function returns
Finish ==
    /\ pc = "loop"
    /\ year = StopYear
    /\ pc' = "done"
    /\ UNCHANGED <<script, year, api, files, requested, failed, ipumsVars, vizVars, censusVars, returned>>

Next == SkipYear \/ SaveYear \/ HttpErrorYear \/ ErrorYear \/ Finish

Spec == Init /\ [][Next]_vars

\* the interpreter runs the loop to its end
FairSpec == Spec /\ WF_vars(Next)

\* rows whose rate times 100 lies halfway between two integers, where the
\* float64 product decides the rounding: 23 and 49 of 160 give 14.37 and
\* 30.63, 1 and 3 of 160 give 0.62 and 1.88
TieParts == {1, 3, 23, 49}
TieRows(s) ==
    IF s \in LoopScripts THEN { RawRow(s, NewYork, Str(160), Str(p)) : p \in TieParts }
    ELSE {}

---------------------------------------------------------------------------
(* One pass of the try block on every row the API can serve *)

RowInit ==
    /\ pc = "try"
    /\ script \in RateScripts
    /\ year \in {FirstYear, StopYear - 1}
    /\ \E r \in RawRows(script) \cup TieRows(script) : api = <<r>>
    /\ files = [y \in Years |-> NoFile]
    /\ requested = <<>>
    /\ failed = {}
    /\ IpumsIdle
    /\ VizIdle
    /\ FirstRun
    /\ NoCall

RowTry ==
    /\ pc = "try"
    /\ requested' = Append(requested, year)
    /\ files' = [files EXCEPT ![year] = Csv(TryBody(script, year, api))]
    /\ pc' = "done"
    /\ UNCHANGED <<script, year, api, failed, ipumsVars, vizVars, censusVars, returned>>

RowNext == RowTry

RowSpec == RowInit /\ [][RowNext]_vars

---------------------------------------------------------------------------
(* Properties of the Census download scripts *)

\* the rate columns of a written row o, each with the columns it divides
RateColumns(s, o) ==
    CASE s \in {"poverty", "hispanic_poverty"} ->
           { [rate |-> o.poverty_rate, num |-> o.below_poverty_level, den |-> o.total_population] }
      [] s = "migration" ->
           { [rate |-> o.migration_rate, num |-> o.moved_total, den |-> o.total_population],
             [rate |-> o.moved_from_different_state_rate, num |-> o.moved_different_state,
              den |-> o.total_population],
             [rate |-> o.moved_from_abroad_rate, num |-> o.moved_from_abroad,
              den |-> o.total_population] }
      [] s = "commuting" ->
           { [rate |-> o.drove_alone_rate, num |-> o.drove_alone, den |-> o.total_workers_16plus],
             [rate |-> o.carpooled_rate, num |-> o.carpooled, den |-> o.total_workers_16plus],
             [rate |-> o.public_transit_rate, num |-> o.public_transit,
              den |-> o.total_workers_16plus],
             [rate |-> o.walked_rate, num |-> o.walked, den |-> o.total_workers_16plus],
             [rate |-> o.worked_from_home_rate, num |-> o.worked_from_home,
              den |-> o.total_workers_16plus] }
      [] s \in {"health_insurance", "hispanic_health_insurance"} ->
           { [rate |-> o.insurance_coverage_rate, num |-> o.with_insurance,
              den |-> o.total_population],
             [rate |-> o.uninsured_rate, num |-> o.without_insurance,
              den |-> o.total_population] }
      [] s = "language" ->
           { [rate |-> o.english_only_rate, num |-> o.speaks_english_only,
              den |-> o.total_population_5plus],
             [rate |-> o.spanish_speaking_rate, num |-> o.speaks_spanish,
              den |-> o.total_population_5plus],
             [rate |-> o.limited_english_rate, num |-> o.limited_english_proficiency,
              den |-> o.total_population_5plus] }
      [] OTHER -> {}

ValidInputs(t) ==
    IsNum(t.num) /\ IsNum(t.den) /\ 0 <= t.num.n /\ t.num.n <= t.den.n /\ t.den.n > 0

\* 100 %, in the unit rates are kept in
Full == Percent * Pow10(RoundDigits)

\* the rows of the file of year y
Rows(y) == files[y].rows

\* C1: in every row a rate-computing script writes, each rate column whose
\* numerator and denominator are numbers with 0 <= numerator <= denominator and
\* denominator > 0 is a number between 0 and 100 percent
C1_RateWithinPercentRange ==
    pc = "done" =>
        \A i \in 1 .. Len(Rows(year)) :
            \A t \in RateColumns(script, Rows(year)[i]) :
                ValidInputs(t) => IsNum(t.rate) /\ 0 <= t.rate.n /\ t.rate.n <= Full

\* a row was written whose rate lies strictly between 0 and 100 percent
C1_Witness ==
    /\ pc = "done"
    /\ \E i \in 1 .. Len(Rows(year)) :
          \E t \in RateColumns(script, Rows(year)[i]) :
              ValidInputs(t) /\ IsNum(t.rate) /\ 0 < t.rate.n /\ t.rate.n < Full

\* the years this run fetched successfully
Fetched == {requested[i] : i \in 1 .. Len(requested)} \ failed

\* the denominator cell of a rate column is zero
ZeroDenominator(t) == IsNum(t.den) /\ t.den.n = 0

\* C2: a fetched row with a zero denominator does not stop the year's file
\* from being written; its rate is NaN, and the rates of the other rows are
\* those of their own numerator and denominator
C2_ZeroDenominatorGivesNaN ==
    \A y \in Fetched :
        /\ files[y].exists
        /\ Len(Rows(y)) = Len(api)
        /\ \A i \in 1 .. Len(Rows(y)) :
              \A t \in RateColumns(script, Rows(y)[i]) :
                  /\ ZeroDenominator(t) => t.rate = NaN
                  /\ ValidInputs(t) => t.rate = Rate(t.num, t.den)

\* the rows of all files of the directory, as <<year of the file, row number>>
FileKeys == UNION { { <<y, i>> : i \in 1 .. Len(Rows(y)) } : y \in Years }

\* the state of a row, with its county in a county file
Geography(r) == IF "county" \in DOMAIN r THEN <<r.state, r.county>> ELSE <<r.state>>

KeyOf(k) == <<Rows(k[1])[k[2]].year, Geography(Rows(k[1])[k[2]])>>

ListsEachGeographyOnce(rows) ==
    \A i, j \in 1 .. Len(rows) : Geography(rows[i]) = Geography(rows[j]) => i = j

\* C3: the file of a fetched year holds one row per data row of the response,
\* in order, each with the requested year; and when the response lists each
\* geography once, no two rows of the directory share (year, geography)
C3_OneRowPerResponseRow ==
    /\ \A y \in Fetched :
          /\ files[y].exists
          /\ Len(Rows(y)) = Len(api)
          /\ \A i \in 1 .. Len(api) :
                /\ Rows(y)[i].year = y
                /\ Rows(y)[i].NAME = api[i].NAME
                /\ Rows(y)[i].state = api[i].state
    /\ ListsEachGeographyOnce(api) =>
          \A k1, k2 \in FileKeys : KeyOf(k1) = KeyOf(k2) => k1 = k2

\* two years were fetched from a response of two geographies
C3_Witness ==
    /\ Cardinality(Fetched) >= 2
    /\ Len(api) = 2
    /\ ListsEachGeographyOnce(api)
    /\ \A y \in Fetched : Len(Rows(y)) = 2

\* the years from FirstYear up to, not including, y, in ascending order
Upto(y) == [i \in 1 .. (y - FirstYear) |-> FirstYear + i - 1]

\* C5: a run requests the years in ascending order, each at most once (a
\* script that does not skip existing files requests exactly the years before
\* the loop variable), a failed year is requested once and the loop goes on,
\* and the run ends having passed the last year
C5_YearsOnceInOrderAndTerminates ==
    /\ [](/\ \A i, j \in 1 .. Len(requested) : i < j => requested[i] < requested[j]
          /\ failed \subseteq {requested[i] : i \in 1 .. Len(requested)}
          /\ \A i \in 1 .. Len(requested) : requested[i] < year
          /\ ~SkipsExisting(script) => requested = Upto(year)
          /\ pc = "done" => year = StopYear)
    /\ <>(pc = "done")

\* a run that does not skip has ended after MaxFailures failed requests
C5_Witness ==
    /\ pc = "done"
    /\ ~SkipsExisting(script)
    /\ Cardinality(failed) = MaxFailures
    /\ requested = Upto(StopYear)

\* C7: an iteration whose request fails changes no file; the file of a failed
\* year is never changed afterwards; and every iteration changes at most the
\* file of its own year
C7_FailedYearLeavesFiles ==
    [][/\ failed' # failed => files' = files
       /\ \A y \in failed : files'[y] = files[y]
       /\ \A y \in Years : y # year => files'[y] = files[y]]_vars

\* a request failed for a year whose file an earlier run had written, and the
\* run went on to save another year
C7_Witness ==
    /\ ~SkipsExisting(script)
    /\ \E y \in failed : files[y] = OldFile(script, y)
    /\ \E y \in Fetched : files[y] = Csv(TryBody(script, y, api))
    /\ \E y \in failed, z \in Fetched : y < z

---------------------------------------------------------------------------
(* download_occupation_industry_data.py: two requests for each year, one   *)
(* try block around both.  The output directory is a function from         *)
(* <<"occupation", year>> and <<"industry", year>> to the CSV; requested    *)
(* holds the requests in call order and failed the requests that raised,   *)
(* <<"save", year>> standing for a to_csv that raised.                     *)

OccupationRow(y, r) ==
    [NAME |-> r.NAME, total_employed |-> ToNumeric(r.B24010_001E),
     state |-> r.state, year |-> y]
IndustryRow(y, r) ==
    [NAME |-> r.NAME, total_employed |-> ToNumeric(r.B24030_001E),
     state |-> r.state, year |-> y]

\* occ_df and ind_df as handed to to_csv
OccupationFrame(y, rows) == [i \in 1 .. Len(rows) |-> OccupationRow(y, rows[i])]
IndustryFrame(y, rows) == [i \in 1 .. Len(rows) |-> IndustryRow(y, rows[i])]

\* data[1:] of the two responses
OccupationApi(t) ==
    [occupation |->
        [i \in 1 .. Len(t) |->
            [NAME |-> t[i][1].NAME, B24010_001E |-> t[i][2], state |-> t[i][1].state]],
     industry |->
        [i \in 1 .. Len(t) |->
            [NAME |-> t[i][1].NAME, B24030_001E |-> t[i][3], state |-> t[i][1].state]]]

OccupationKeys == {"occupation", "industry"} \X Years

\* the responses the runs are checked with: no state, two states, a null estimate
OccupationTemplates ==
    { <<>>,
      << <<NewYork, Str(2), Str(1)>>, <<Florida, Str(1), Str(1)>> >>,
      << <<NewYork, Null, Str(1)>>, <<Florida, Str(2), Str(2)>> >> }

OccupationInit ==
    /\ pc = "loop"
    /\ script = "occupation_industry"
    /\ year = FirstYear
    /\ \E t \in OccupationTemplates : api = OccupationApi(t)
    /\ \E pre \in PreExisting :
          files = [k \in OccupationKeys |->
                     IF k[2] \in pre
                     THEN Csv(OccupationFrame(k[2], OccupationApi(OldTemplate).occupation))
                     ELSE NoFile]
    /\ requested = <<>>
    /\ failed = {}
    /\ IpumsIdle
    /\ VizIdle
    /\ FirstRun
    /\ NoCall

\* requests.get(occ_url) and raise_for_status() return
OccupationGet ==
    /\ pc = "loop"
    /\ year < StopYear
    /\ requested' = Append(requested, <<"occupation", year>>)
    /\ slept' = FALSE
    /\ pc' = "industry"
    /\ UNCHANGED <<script, year, api, files, failed, ipumsVars, vizVars, table, run,
                   before, returned>>

\* the occupation request raises: except, print, time.sleep(1)
OccupationGetFails ==
    /\ pc = "loop"
    /\ year < StopYear
    /\ Cardinality(failed) < MaxFailures
    /\ requested' = Append(requested, <<"occupation", year>>)
    /\ failed' = failed \cup {<<"occupation", year>>}
    /\ slept' = TRUE
    /\ year' = year + 1
    /\ UNCHANGED <<pc, script, api, files, ipumsVars, vizVars, table, run, before,
                   returned>>

\* IndustryGetFails with occ_df written before the industry request is made
IndustryGetFailsAfterSave ==
    /\ pc = "industry"
    /\ Cardinality(failed) < MaxFailures
    /\ requested' = Append(requested, <<"industry", year>>)
    /\ failed' = failed \cup {<<"industry", year>>}
    /\ files' = [files EXCEPT ![<<"occupation", year>>] =
                                  Csv(OccupationFrame(year, api.occupation))]
    /\ slept' = TRUE
    /\ year' = year + 1
    /\ pc' = "loop"
    /\ UNCHANGED <<script, api, ipumsVars, vizVars, table, run, before, returned>>

\* the industry request raises: except, print, time.sleep(1)
IndustryGetFails ==
    /\ pc = "industry"
    /\ Cardinality(failed) < MaxFailures
    /\ requested' = Append(requested, <<"industry", year>>)
    /\ failed' = failed \cup {<<"industry", year>>}
    /\ slept' = TRUE
    /\ year' = year + 1
    /\ pc' = "loop"
    /\ UNCHANGED <<script, api, files, ipumsVars, vizVars, table, run, before,
                   returned>>

\* requests.get(ind_url) returns, both frames are built and written,
\* time.sleep(1)
IndustryGet ==
    /\ pc = "industry"
    /\ requested' = Append(requested, <<"industry", year>>)
    /\ files' = [files EXCEPT
                   ![<<"occupation", year>>] = Csv(OccupationFrame(year, api.occupation)),
                   ![<<"industry", year>>] = Csv(IndustryFrame(year, api.industry))]
    /\ slept' = TRUE
    /\ year' = year + 1
    /\ pc' = "loop"
    /\ UNCHANGED <<script, api, failed, ipumsVars, vizVars, table, run, before,
                   returned>>

\* requests.get(ind_url) returns, occ_df.to_csv writes and ind_df.to_csv
\* cannot open its file: except, print, time.sleep(1)
IndustrySaveFails ==
    /\ pc = "industry"
    /\ Cardinality(failed) < MaxFailures
    /\ requested' = Append(requested, <<"industry", year>>)
    /\ failed' = failed \cup {<<"save", year>>}
    /\ files' = [files EXCEPT ![<<"occupation", year>>] =
                                  Csv(OccupationFrame(year, api.occupation))]
    /\ slept' = TRUE
    /\ year' = year + 1
    /\ pc' = "loop"
    /\ UNCHANGED <<script, api, ipumsVars, vizVars, table, run, before, returned>>

\* the range is exhausted: the function returns
OccupationFinish ==
    /\ pc = "loop"
    /\ script = "occupation_industry"
    /\ year = StopYear
    /\ pc' = "done"
    /\ UNCHANGED <<script, year, api, files, requested, failed, ipumsVars, vizVars,
                   censusVars, returned>>

OccupationNext ==
    \/ OccupationGet \/ OccupationGetFails
    \/ IndustryGet \/ IndustryGetFails \/ IndustrySaveFails
    \/ OccupationFinish

OccupationSpec == OccupationInit /\ [][OccupationNext]_vars

\* C17: when the occupation or the industry request of a year fails, neither
\* acs5_occupation_<year>.csv nor acs5_industry_<year>.csv is written for that
\* year in the run; a file of a year is written only after both requests of
\* the year succeeded.
C17_BothFilesOrNeither ==
    script = "occupation_industry" =>
        \A y \in Years :
           LET occ == <<"occupation", y>>
               ind == <<"industry", y>>
               Made(k) == \E i \in DOMAIN requested : requested[i] = k
           IN  /\ (occ \in failed \/ ind \in failed) =>
                     files[occ] = before[occ] /\ files[ind] = before[ind]
               /\ (files[occ] # before[occ] \/ files[ind] # before[ind]) =>
                     Made(occ) /\ Made(ind) /\ occ \notin failed /\ ind \notin failed

\* the industry request of 2010 failed and left no file, both files of 2011
\* were written
C17_Witness ==
    /\ script = "occupation_industry"
    /\ <<"industry", FirstYear>> \in failed
    /\ ~files[<<"occupation", FirstYear>>].exists
    /\ ~files[<<"industry", FirstYear>>].exists
    /\ files[<<"occupation", FirstYear + 1>>].exists
    /\ files[<<"industry", FirstYear + 1>>].exists
    /\ Len(files[<<"industry", FirstYear + 1>>].rows) = 2

\* C18: in a run of a Census download script a time.sleep(1) lies between
\* any two consecutive HTTP GET requests, also when the earlier one failed.
C18_SleepBetweenRequests ==
    [][ (Len(requested') > Len(requested) /\ requested # <<>>) => slept ]_vars

---------------------------------------------------------------------------
(* download_hispanic_comparison_data.py: for table_key in tables, for year *)
(* in years.  The output directory is a function from <<table_key, year>>  *)
(* to the CSV; requested and failed hold such pairs.                       *)

\* the keys of the tables dict, in insertion order
tables == <<"poverty", "housing_rent", "housing_value", "health_insurance">>
TableKeys == {tables[i] : i \in DOMAIN tables}
TableIndex(t) == CHOOSE i \in DOMAIN tables : tables[i] = t

\* a row of the response for get=NAME,<table_info['variables']>
HispanicRawRow(t, g, den, part) ==
    CASE t = "poverty" ->
           [NAME |-> g.NAME, B17001I_001E |-> den, B17001I_002E |-> part,
            state |-> g.state]
      [] t = "housing_rent" -> [NAME |-> g.NAME, B25064I_001E |-> den, state |-> g.state]
      [] t = "housing_value" -> [NAME |-> g.NAME, B25077I_001E |-> den, state |-> g.state]
      [] t = "health_insurance" ->
           [NAME |-> g.NAME, B27001I_001E |-> den, B27001I_003E |-> part,
            B27001I_009E |-> part, state |-> g.state]

\* a row of df as written by to_csv
HispanicRow(t, y, r) ==
    CASE t = "poverty" -> HispanicPovertyRow(y, r)
      [] t = "housing_rent" ->
           [NAME |-> r.NAME, median_gross_rent |-> ToNumeric(r.B25064I_001E),
            state |-> r.state, year |-> y]
      [] t = "housing_value" ->
           [NAME |-> r.NAME, median_home_value |-> ToNumeric(r.B25077I_001E),
            state |-> r.state, year |-> y]
      [] t = "health_insurance" -> HispanicHealthRow(y, r)

HispanicFrame(t, y, rows) == [i \in 1 .. Len(rows) |-> HispanicRow(t, y, rows[i])]

\* data[1:] of the response for each table
HispanicApi(tpl) ==
    [t \in TableKeys |->
        [i \in 1 .. Len(tpl) |-> HispanicRawRow(t, tpl[i][1], tpl[i][2], tpl[i][3])]]

HispanicKeys == TableKeys \X Years

\* if os.path.exists(output_file) with the table key missing from the name
HispanicSkipsAnyTable == \E t \in TableKeys : files[<<t, year>>].exists

\* if os.path.exists(output_file)
HispanicSkips == files[<<table, year>>].exists

HispanicInLoop == pc = "inner" /\ year < StopYear

\* print, continue
HispanicSkipYear ==
    /\ HispanicInLoop
    /\ HispanicSkips
    /\ year' = year + 1
    /\ UNCHANGED <<pc, script, api, files, requested, failed, ipumsVars, vizVars,
                   censusVars, returned>>

\* the request succeeds, df.to_csv(output_file) writes, time.sleep(1)
HispanicSaveYear ==
    /\ HispanicInLoop
    /\ ~HispanicSkips
    /\ requested' = Append(requested, <<table, year>>)
    /\ files' = [files EXCEPT ![<<table, year>>] =
                                  Csv(HispanicFrame(table, year, api[table]))]
    /\ slept' = TRUE
    /\ year' = year + 1
    /\ UNCHANGED <<pc, script, api, failed, ipumsVars, vizVars, table, run, before,
                   returned>>

\* the request raises: either except clause prints, time.sleep(1)
HispanicErrorYear ==
    /\ HispanicInLoop
    /\ ~HispanicSkips
    /\ Cardinality(failed) < MaxFailures
    /\ requested' = Append(requested, <<table, year>>)
    /\ failed' = failed \cup {<<table, year>>}
    /\ slept' = TRUE
    /\ year' = year + 1
    /\ UNCHANGED <<pc, script, api, files, ipumsVars, vizVars, table, run, before,
                   returned>>

\* the years of a table are exhausted: the next table_key
HispanicNextTable ==
    /\ pc = "inner"
    /\ year = StopYear
    /\ TableIndex(table) < Len(tables)
    /\ table' = tables[TableIndex(table) + 1]
    /\ year' = FirstYear
    /\ UNCHANGED <<pc, script, api, files, requested, failed, ipumsVars, vizVars,
                   slept, run, before, returned>>

\* the last table is exhausted: the function returns
HispanicFinish ==
    /\ pc = "inner"
    /\ year = StopYear
    /\ TableIndex(table) = Len(tables)
    /\ pc' = "done"
    /\ UNCHANGED <<script, year, api, files, requested, failed, ipumsVars, vizVars,
                   censusVars, returned>>

---------------------------------------------------------------------------
(* Runs of a script one after another on the same output directory.        *)
(* requested, failed and slept are those of the run in progress, before is *)
(* the directory as the run found it.                                      *)

\* how many times the script is started
MaxRuns == 2

RunsScripts == {"county", "commuting", "hispanic_comparison"}

RunsTemplate == << <<NewYork, Str(2), Str(1)>>, <<Florida, Str(0), Str(0)>> >>

\* the files the Hispanic comparison directory lacks when the first run starts
HispanicMissing ==
    { {},
      {<<"poverty", FirstYear>>},
      {<<"poverty", StopYear - 1>>, <<"housing_rent", FirstYear>>},
      {<<"housing_value", FirstYear + 1>>, <<"health_insurance", FirstYear + 1>>,
       <<"health_insurance", FirstYear + 2>>} }

RunsInit ==
    /\ script \in RunsScripts
    /\ year = FirstYear
    /\ IF script = "hispanic_comparison"
       THEN /\ pc = "inner"
            /\ table = tables[1]
            /\ api = HispanicApi(RunsTemplate)
            /\ \E missing \in HispanicMissing :
                  files = [k \in HispanicKeys |->
                             IF k \in missing
                             THEN NoFile
                             ELSE Csv(HispanicFrame(k[1], k[2],
                                                    HispanicApi(OldTemplate)[k[1]]))]
       ELSE /\ pc = "loop"
            /\ table = ""
            /\ api = ApiRows(script, RunsTemplate)
            /\ \E pre \in PreExisting :
                  files = [y \in Years |-> IF y \in pre THEN OldFile(script, y) ELSE NoFile]
    /\ requested = <<>>
    /\ failed = {}
    /\ slept = FALSE
    /\ run = 1
    /\ before = files
    /\ IpumsIdle
    /\ VizIdle
    /\ NoCall

\* the script is started again
Rerun ==
    /\ pc = "done"
    /\ run < MaxRuns
    /\ run' = run + 1
    /\ before' = files
    /\ pc' = IF script = "hispanic_comparison" THEN "inner" ELSE "loop"
    /\ table' = IF script = "hispanic_comparison" THEN tables[1] ELSE ""
    /\ year' = FirstYear
    /\ requested' = <<>>
    /\ failed' = {}
    /\ slept' = FALSE
    /\ UNCHANGED <<script, api, files, ipumsVars, vizVars, returned>>

RunsNext ==
    \/ SkipYear \/ SaveYear \/ HttpErrorYear \/ ErrorYear \/ Finish
    \/ HispanicSkipYear \/ HispanicSaveYear \/ HispanicErrorYear
    \/ HispanicNextTable \/ HispanicFinish
    \/ Rerun

RunsSpec == RunsInit /\ [][RunsNext]_vars

Requested(k) == \E i \in DOMAIN requested : requested[i] = k

\* C13: in the scripts that test for an existing output, a year whose file
\* exists when a run reaches it is not requested and its file is left as it
\* is; over any sequence of runs a file is written at most once, a year whose
\* fetch failed has no file and is requested by the next run, and a run that
\* finds a file for every year makes no request.
C13_ExistingOutputsAreSkipped ==
    /\ [](\A k \in DOMAIN files :
             /\ before[k].exists => files[k] = before[k] /\ ~Requested(k)
             /\ k \in failed => ~files[k].exists /\ Requested(k)
             /\ Cardinality({i \in DOMAIN requested : requested[i] = k}) <= 1
             /\ (pc = "done" /\ ~before[k].exists) => Requested(k))
    /\ []((\A k \in DOMAIN files : before[k].exists) => requested = <<>>)
    /\ [][ /\ \A k \in DOMAIN files :
                 /\ files[k].exists => files'[k] = files[k]
                 /\ files'[k] # files[k] => ~Requested(k) /\ requested' = Append(requested, k)
           /\ run' # run =>
                 \A k \in failed : ~before'[k].exists /\ requested' = <<>> ]_vars

\* the second run of the Hispanic comparison script has ended: it requested
\* only the file the first run failed to fetch and wrote it, and left the
\* files it found as they were
C13_Witness ==
    /\ script = "hispanic_comparison"
    /\ run = 2
    /\ pc = "done"
    /\ requested = << <<"housing_rent", FirstYear>> >>
    /\ files[<<"housing_rent", FirstYear>>].exists
    /\ files[<<"poverty", StopYear - 1>>] = before[<<"poverty", StopYear - 1>>]
    /\ before[<<"poverty", StopYear - 1>>].exists
    /\ Len(files[<<"poverty", StopYear - 1>>].rows) = 2

---------------------------------------------------------------------------
(* download_ipums_data.py: process_ipums_data.                             *)
(* A person record of the microdata is [BPLD, STATEFIP, PERWT]; PERWT is   *)
(* kept in hundredths of a person, so 150 is the weight 1.5.               *)

DigitStr == <<"0", "1", "2", "3", "4", "5", "6", "7", "8", "9">>

\* astype(str) of a STATEFIP code, which has at most two digits
AsStr(n) ==
    IF n < 10 THEN DigitStr[n + 1]
    ELSE DigitStr[(n \div 10) + 1] \o DigitStr[(n % 10) + 1]

\* .str.zfill(2)
ZFill2(n) == IF n < 10 THEN "0" \o AsStr(n) ELSE AsStr(n)

\* .map(STATE_FIPS_TO_NAME): a code that is not a key of the dict maps to NaN,
\* written as ""
STATE_FIPS_TO_NAME(s) ==
    CASE s = "01" -> "Alabama"
      [] s = "02" -> "Alaska"
      [] s = "04" -> "Arizona"
      [] s = "05" -> "Arkansas"
      [] s = "06" -> "California"
      [] s = "08" -> "Colorado"
      [] s = "09" -> "Connecticut"
      [] s = "10" -> "Delaware"
      [] s = "11" -> "District of Columbia"
      [] s = "12" -> "Florida"
      [] s = "13" -> "Georgia"
      [] s = "15" -> "Hawaii"
      [] s = "16" -> "Idaho"
      [] s = "17" -> "Illinois"
      [] s = "18" -> "Indiana"
      [] s = "19" -> "Iowa"
      [] s = "20" -> "Kansas"
      [] s = "21" -> "Kentucky"
      [] s = "22" -> "Louisiana"
      [] s = "23" -> "Maine"
      [] s = "24" -> "Maryland"
      [] s = "25" -> "Massachusetts"
      [] s = "26" -> "Michigan"
      [] s = "27" -> "Minnesota"
      [] s = "28" -> "Mississippi"
      [] s = "29" -> "Missouri"
      [] s = "30" -> "Montana"
      [] s = "31" -> "Nebraska"
      [] s = "32" -> "Nevada"
      [] s = "33" -> "New Hampshire"
      [] s = "34" -> "New Jersey"
      [] s = "35" -> "New Mexico"
      [] s = "36" -> "New York"
      [] s = "37" -> "North Carolina"
      [] s = "38" -> "North Dakota"
      [] s = "39" -> "Ohio"
      [] s = "40" -> "Oklahoma"
      [] s = "41" -> "Oregon"
      [] s = "42" -> "Pennsylvania"
      [] s = "44" -> "Rhode Island"
      [] s = "45" -> "South Carolina"
      [] s = "46" -> "South Dakota"
      [] s = "47" -> "Tennessee"
      [] s = "48" -> "Texas"
      [] s = "49" -> "Utah"
      [] s = "50" -> "Vermont"
      [] s = "51" -> "Virginia"
      [] s = "53" -> "Washington"
      [] s = "54" -> "West Virginia"
      [] s = "55" -> "Wisconsin"
      [] s = "56" -> "Wyoming"
      [] s = "72" -> "Puerto Rico"
      [] OTHER -> ""

\* microdata[microdata['BPLD'] == PUERTO_RICO_BPL]
PrBorn(m) == SelectSeq(m, LAMBDA r : r.BPLD = PUERTO_RICO_BPL)

\* groupby('STATEFIP')['weighted_count'].sum() for one state
RECURSIVE SumPerwt(_, _)
SumPerwt(m, st) ==
    IF m = <<>> THEN 0
    ELSE (IF Head(m).STATEFIP = st THEN Head(m).PERWT ELSE 0)
         + SumPerwt(Tail(m), st)

\* .round().astype(int) of a weight sum in hundredths
RoundWeight(w) == RoundHalfEven(w, 100)

StateRow(y, st, w) ==
    [NAME |-> STATE_FIPS_TO_NAME(ZFill2(st)),
     B03001_005E |-> Num(RoundWeight(w)),
     state |-> ZFill2(st),
     year |-> y]

\* StateCounts without the groupby: a row for every record
StateCountsPerRecord(pr, y) ==
    { StateRow(y, pr[i].STATEFIP, pr[i].PERWT) : i \in 1 .. Len(pr) }

\* state_counts before the sort: a row for each group of the groupby
StateCounts(pr, y) ==
    { StateRow(y, st, SumPerwt(pr, st))
        : st \in { pr[i].STATEFIP : i \in 1 .. Len(pr) } }

\* sort_values('B03001_005E', ascending=False): the default sort is not
\* stable, so rows of equal population may come out in any order
SortValues(rows) ==
    { s \in [1 .. Cardinality(rows) -> rows] :
        /\ \A i, j \in DOMAIN s : i # j => s[i] # s[j]
        /\ \A i, j \in DOMAIN s :
              i < j => s[i].B03001_005E.n >= s[j].B03001_005E.n }

\* a download directory: whether a *.dat.gz or *.dat file and a *.xml file
\* are in it, and whether ipumspy's readers can read them
NoDir == [exists |-> FALSE, dat |-> FALSE, xml |-> FALSE, readable |-> FALSE]
EmptyDir == [NoDir EXCEPT !.exists = TRUE]
CompleteDir == [exists |-> TRUE, dat |-> TRUE, xml |-> TRUE, readable |-> TRUE]
DirKinds ==
    { CompleteDir,
      [CompleteDir EXCEPT !.dat = FALSE],
      [CompleteDir EXCEPT !.xml = FALSE],
      [CompleteDir EXCEPT !.readable = FALSE] }

\* process_ipums_data(download_path, year, output_dir): the contents the
\* output file of the year can have afterwards, old being its contents before
ProcessIpumsData(dir, m, y, old) ==
    IF ~dir.dat THEN {old}
    ELSE IF ~dir.xml THEN {old}
    ELSE IF ~dir.readable THEN {old}
    ELSE IF Len(PrBorn(m)) = 0 THEN {old}
    ELSE { Csv(s) : s \in SortValues(StateCounts(PrBorn(m), y)) }

\* samples_config, in insertion order
SamplesConfig == <<1960, 1970, 1980>>
IpumsYears == { SamplesConfig[i] : i \in 1 .. Len(SamplesConfig) }

\* the microdata an extract can hold
Persons ==
    [BPLD : {PUERTO_RICO_BPL, 25000}, STATEFIP : {9, 36, 99},
     PERWT : {50, 100, 150}]
Microdata == UNION { [1 .. n -> Persons] : n \in 0 .. MaxRecords }

---------------------------------------------------------------------------
(* process_ipums_data on every download directory *)

ProcessInit ==
    /\ pc = "process"
    /\ script = "download_ipums_data"
    /\ year \in IpumsYears
    /\ api \in Microdata
    /\ \E dir \in DirKinds :
          /\ dir # CompleteDir => Len(api) = 1
          /\ downloaded = [y \in IpumsYears |-> IF y = year THEN dir ELSE NoDir]
    /\ files = [y \in IpumsYears |-> NoFile]
    /\ requested = <<>>
    /\ failed = {}
    /\ api_key = "key" /\ wait_time = 0 /\ check_count = 1 /\ status = "completed"
    /\ VizIdle
    /\ FirstRun
    /\ NoCall

ProcessIpums ==
    /\ pc = "process"
    /\ \E f \in ProcessIpumsData(downloaded[year], api, year, files[year]) :
          files' = [files EXCEPT ![year] = f]
    /\ pc' = "done"
    /\ UNCHANGED <<script, year, api, requested, failed, ipumsVars, vizVars, censusVars, returned>>

ProcessNext == ProcessIpums

ProcessSpec == ProcessInit /\ [][ProcessNext]_vars

\* C4: the CSV process_ipums_data writes for a census year has exactly one row
\* for each STATEFIP occurring among the records with BPLD = 11000, whose
\* population is the rounded sum of PERWT over that state's records; every row
\* carries the year; the rows are in descending order of population; and no
\* file is written when there is no such record.
C4_PerStateCsv ==
    pc = "done" =>
        LET born == { i \in 1 .. Len(api) : api[i].BPLD = PUERTO_RICO_BPL }
            states == { api[i].STATEFIP : i \in born }
            weights(st) == { <<i, api[i].PERWT>> : i \in { j \in born : api[j].STATEFIP = st } }
            total(st) ==
                LET S[W \in SUBSET weights(st)] ==
                        IF W = {} THEN 0
                        ELSE LET w == CHOOSE x \in W : TRUE
                             IN  w[2] + S[W \ {w}]
                IN  S[weights(st)]
            rows == files[year].rows
        IN  IF born = {}
            THEN ~files[year].exists
            ELSE downloaded[year] = CompleteDir =>
                /\ files[year].exists
                /\ \A st \in states :
                      Cardinality({ i \in 1 .. Len(rows) : rows[i].state = ZFill2(st) }) = 1
                /\ Len(rows) = Cardinality(states)
                /\ \A i \in 1 .. Len(rows) :
                      /\ rows[i].year = year
                      /\ \E st \in states :
                            /\ rows[i].state = ZFill2(st)
                            /\ 100 * rows[i].B03001_005E.n - total(st) \in -50 .. 50
                            /\ (100 * rows[i].B03001_005E.n - total(st) \in {-50, 50}
                                  => rows[i].B03001_005E.n % 2 = 0)
                /\ \A i \in 1 .. Len(rows) - 1 :
                      rows[i].B03001_005E.n >= rows[i + 1].B03001_005E.n

\* a file of two states was written from microdata in which one state has two
\* Puerto-Rico-born records whose weights sum to a half
C4_Witness ==
    /\ pc = "done"
    /\ files[year].exists
    /\ Len(files[year].rows) = 2
    /\ \E i, j \in 1 .. Len(api) :
          /\ i # j
          /\ api[i].BPLD = PUERTO_RICO_BPL /\ api[j].BPLD = PUERTO_RICO_BPL
          /\ api[i].STATEFIP = api[j].STATEFIP
          /\ (api[i].PERWT + api[j].PERWT) % 100 = 50

---------------------------------------------------------------------------
(* download_ipums_pr_specific_data.py: weighted_median.  values and        *)
(* weights are two Series with the same row labels 1 .. n, kept as one     *)
(* sequence of [value, weight] records whose position is the label.        *)

\* most rows of the Series handed to weighted_median
MaxEntries == 3

\* what a call of a function under test ended with
Result(v) == [raised |-> FALSE, value |-> v]
RaisedError(e) == [raised |-> TRUE, value |-> e]

\* values.sort_values().index: the labels in an order of non-decreasing
\* value; the default sort is not stable, so rows of equal value may come
\* in any order
SortedIndices(s) ==
    { p \in [1 .. Len(s) -> 1 .. Len(s)] :
        /\ \A i, j \in DOMAIN p : i # j => p[i] # p[j]
        /\ \A i, j \in DOMAIN p : i < j => s[p[i]].value <= s[p[j]].value }

\* sorted_weights.cumsum() at position i of the order p
RECURSIVE CumWeights(_, _, _)
CumWeights(s, p, i) ==
    IF i = 0 THEN 0 ELSE CumWeights(s, p, i - 1) + s[p[i]].weight

\* weighted_median testing cum_weights > total_weight / 2
weighted_median_upper(s, p) ==
    LET total_weight == CumWeights(s, p, Len(s))
        over == { i \in 1 .. Len(s) : 2 * CumWeights(s, p, i) > total_weight }
    IN  IF over = {} THEN RaisedError("IndexError")
        ELSE Result(s[p[CHOOSE i \in over : \A j \in over : i <= j]].value)

\* weighted_median(values, weights) with sorted_indices = p
weighted_median(s, p) ==
    LET total_weight == CumWeights(s, p, Len(s))
        \* cum_weights[cum_weights >= total_weight / 2]
        over == { i \in 1 .. Len(s) : 2 * CumWeights(s, p, i) >= total_weight }
    IN  \* .index[0] of an empty index raises IndexError
        IF over = {} THEN RaisedError("IndexError")
        ELSE Result(s[p[CHOOSE i \in over : \A j \in over : i <= j]].value)

\* the Series the callers can pass: RENT or VALUEH and HHWT of the renters
\* or owners of one state
Entries == [value : {1, 2, 3}, weight : {0, 1, 2}]
Series == UNION { [1 .. n -> Entries] : n \in 0 .. MaxEntries }

\* the variables a call of a function under test does not use
NoRun ==
    /\ files = <<>> /\ requested = <<>> /\ failed = {}
    /\ IpumsIdle /\ VizIdle /\ FirstRun

MedianInit ==
    /\ pc = "call"
    /\ script = "weighted_median"
    /\ year = 2021
    /\ api \in Series
    /\ NoRun
    /\ NoCall

WeightedMedian ==
    /\ pc = "call"
    /\ script = "weighted_median"
    /\ \E p \in SortedIndices(api) : returned' = weighted_median(api, p)
    /\ pc' = "done"
    /\ UNCHANGED <<script, year, api, files, requested, failed, ipumsVars,
                   vizVars, censusVars>>

MedianNext == WeightedMedian

MedianSpec == MedianInit /\ [][MedianNext]_vars

\* the weight of the entries of s whose value is at most v
RECURSIVE WeightAtMost(_, _)
WeightAtMost(s, v) ==
    IF s = <<>> THEN 0
    ELSE (IF Head(s).value <= v THEN Head(s).weight ELSE 0)
         + WeightAtMost(Tail(s), v)

\* sorted_weights.sum(), in any order
RECURSIVE TotalWeight(_)
TotalWeight(s) ==
    IF s = <<>> THEN 0 ELSE Head(s).weight + TotalWeight(Tail(s))

\* C15: for a non-empty input whose weights are non-negative with a positive
\* total, weighted_median returns an element v of values such that the
\* entries of value <= v carry at least half of the total weight, and no
\* smaller element of values has that property.
C15_LowerWeightedMedian ==
    (/\ pc = "done"
     /\ script = "weighted_median"
     /\ api # <<>>
     /\ TotalWeight(api) > 0) =>
        LET total == TotalWeight(api)
            v == returned.value
        IN  /\ ~returned.raised
            /\ \E i \in DOMAIN api : api[i].value = v
            /\ 2 * WeightAtMost(api, v) >= total
            /\ \A i \in DOMAIN api :
                  api[i].value < v => 2 * WeightAtMost(api, api[i].value) < total

\* three unsorted values, the two smaller carrying exactly half of the weight
C15_Witness ==
    /\ pc = "done"
    /\ script = "weighted_median"
    /\ api = <<[value |-> 3, weight |-> 2], [value |-> 1, weight |-> 1],
               [value |-> 2, weight |-> 1]>>
    /\ returned = Result(2)

---------------------------------------------------------------------------
(* download_ipums_pr_specific_data.py: the statistics by state.  df is the *)
(* frame of the Puerto-Rico-born records, a sequence of person records     *)
(* [STATEFIP, AGE, EMPSTAT, SPEAKENG, PERWT]; weighted_count is PERWT.     *)
(* A set of positions of df stands for a filtered copy of it.              *)

\* frame[frame['STATEFIP'] == st]
InState(df, I, st) == { i \in I : df[i].STATEFIP = st }

\* the groups of frame.groupby('STATEFIP')
Groups(df, I) == { df[i].STATEFIP : i \in I }

\* frame['PERWT'].sum()
RECURSIVE SumPerwtOf(_, _)
SumPerwtOf(df, I) ==
    IF I = {} THEN 0
    ELSE LET i == CHOOSE j \in I : TRUE
         IN  df[i].PERWT + SumPerwtOf(df, I \ {i})

\* the label reset_index() gives the row of group st: its position, from 0,
\* among the groups in ascending order
RowLabel(G, st) == Cardinality({ s \in G : s < st })

\* (stats[column] / frame.groupby('STATEFIP')['PERWT'].sum() * 100).round(2)
\* for the row of group st, num being stats[column] of that row.  stats is
\* labelled 0, 1, ... by reset_index() and the sums are labelled by STATEFIP;
\* the division aligns the two Series on their labels, and the assignment
\* keeps the labels of stats: the row gets its numerator over the sum of the
\* group whose STATEFIP equals the row's label, NaN when there is none.
RateOverGroupSum(df, I, st, num) ==
    LET label == RowLabel(Groups(df, I), st)
    IN  IF label \in Groups(df, I)
        THEN Rate(Num(num), Num(SumPerwtOf(df, InState(df, I, label))))
        ELSE NaN

\* sort_values(column, ascending=False): rows of equal value in any order
SortDescending(rows, column) ==
    { s \in [1 .. Cardinality(rows) -> rows] :
        /\ \A i, j \in DOMAIN s : i # j => s[i] # s[j]
        /\ \A i, j \in DOMAIN s : i < j => s[i][column].n >= s[j][column].n }

\* the row of state st that calculate_employment_stats returns
EmploymentRow(df, y, st) ==
    LET working_age == { i \in DOMAIN df : df[i].AGE >= 16 }
        mine == InState(df, working_age, st)
        unemployed == SumPerwtOf(df, { i \in mine : df[i].EMPSTAT = 2 })
        in_labor_force == SumPerwtOf(df, { i \in mine : df[i].EMPSTAT \in {1, 2} })
        \* how='left': a state without a row in emp_stats gets NaN
        in_emp_stats == st \in Groups(df, working_age)
    IN  [NAME |-> STATE_FIPS_TO_NAME(ZFill2(st)),
         total_population |-> Num(SumPerwtOf(df, InState(df, DOMAIN df, st))),
         unemployment_rate |->
             IF in_emp_stats THEN Rate(Num(unemployed), Num(in_labor_force)) ELSE NaN,
         labor_force_participation |->
             IF in_emp_stats
             THEN RateOverGroupSum(df, working_age, st, in_labor_force)
             ELSE NaN,
         state |-> ZFill2(st),
         year |-> y]

calculate_employment_stats(df, y) ==
    { Result(s) :
        s \in SortDescending({ EmploymentRow(df, y, st) : st \in Groups(df, DOMAIN df) },
                             "total_population") }

\* the row of state st that calculate_language_stats returns
LanguageStatsRow(df, y, st) ==
    LET language_age == { i \in DOMAIN df : df[i].AGE >= 5 }
        mine == InState(df, language_age, st)
        speaks_english_only == SumPerwtOf(df, { i \in mine : df[i].SPEAKENG = 1 })
        speaks_other_language ==
            SumPerwtOf(df, { i \in mine : df[i].SPEAKENG \in {2, 3, 4, 5} })
        limited_english == SumPerwtOf(df, { i \in mine : df[i].SPEAKENG \in {3, 4, 5} })
        in_lang_stats == st \in Groups(df, language_age)
    IN  [NAME |-> STATE_FIPS_TO_NAME(ZFill2(st)),
         total_population |-> Num(SumPerwtOf(df, InState(df, DOMAIN df, st))),
         english_only_rate |->
             IF in_lang_stats
             THEN RateOverGroupSum(df, language_age, st, speaks_english_only)
             ELSE NaN,
         other_language_rate |->
             IF in_lang_stats
             THEN RateOverGroupSum(df, language_age, st, speaks_other_language)
             ELSE NaN,
         limited_english_rate |->
             IF in_lang_stats
             THEN RateOverGroupSum(df, language_age, st, limited_english)
             ELSE NaN,
         state |-> ZFill2(st),
         year |-> y]

calculate_language_stats(df, y) ==
    { Result(s) :
        s \in SortDescending({ LanguageStatsRow(df, y, st) : st \in Groups(df, DOMAIN df) },
                             "total_population") }

\* groupby('STATEFIP') ... .reset_index(): the groups in ascending order
AscendingStates(G) ==
    CHOOSE s \in [1 .. Cardinality(G) -> G] : \A i, j \in DOMAIN s : i < j => s[i] < s[j]

\* calculate_occupation_industry_stats(df, year): the frames it can return,
\* or that it raises
calculate_occupation_industry_stats(df, y) ==
    LET employed == { i \in DOMAIN df : df[i].EMPSTAT = 1 }
        states == Groups(df, DOMAIN df)
        total(st) == SumPerwtOf(df, InState(df, DOMAIN df, st))
        \* how='left': a state without a row in employed_counts gets NaN
        employed_count(st) ==
            IF st \in Groups(df, employed)
            THEN Num(SumPerwtOf(df, InState(df, employed, st)))
            ELSE NaN
        row(st) ==
            [NAME |-> STATE_FIPS_TO_NAME(ZFill2(st)),
             total_population |-> Num(total(st)),
             employed_count |-> employed_count(st),
             employment_rate |-> Rate(employed_count(st), Num(total(st))),
             state |-> ZFill2(st),
             year |-> y]
    IN  IF employed = {}
        THEN { Result([i \in 1 .. Cardinality(states) |->
                         LET st == AscendingStates(states)[i]
                         IN  [NAME |-> STATE_FIPS_TO_NAME(ZFill2(st)),
                              total_population |-> Num(total(st)),
                              state |-> ZFill2(st),
                              year |-> y]]) }
        \* .round().astype(int) of a column holding NaN raises
        ELSE IF \E st \in states : ~IsNum(employed_count(st))
        THEN { RaisedError("ValueError") }
        ELSE { Result(s) :
                 s \in SortDescending({ row(st) : st \in states }, "total_population") }

\* the person records the statistics are computed from: Alabama (1) and
\* Alaska (2), a child and an adult, the values of the column each function
\* tests
PrPersons(s) ==
    CASE s = "calculate_employment_stats" ->
           [STATEFIP : {1, 2}, AGE : {10, 30}, EMPSTAT : {1, 3}, SPEAKENG : {1},
            PERWT : {100, 200}]
      [] s = "calculate_language_stats" ->
           [STATEFIP : {1, 2}, AGE : {4, 30}, EMPSTAT : {1}, SPEAKENG : {1, 4},
            PERWT : {100, 200}]
      [] s = "calculate_occupation_industry_stats" ->
           [STATEFIP : {1, 2}, AGE : {30}, EMPSTAT : {1, 3}, SPEAKENG : {1},
            PERWT : {100, 200}]

StatsFunctions ==
    {"calculate_employment_stats", "calculate_language_stats",
     "calculate_occupation_industry_stats"}

\* pr_born holds at least one record when a statistic is computed
StatsInit ==
    /\ pc = "call"
    /\ script \in StatsFunctions
    /\ year = 2021
    /\ \E n \in 1 .. MaxRecords : api \in [1 .. n -> PrPersons(script)]
    /\ NoRun
    /\ NoCall

CalculateEmploymentStats ==
    /\ pc = "call"
    /\ script = "calculate_employment_stats"
    /\ returned' \in calculate_employment_stats(api, year)
    /\ pc' = "done"
    /\ UNCHANGED <<script, year, api, files, requested, failed, ipumsVars,
                   vizVars, censusVars>>

CalculateLanguageStats ==
    /\ pc = "call"
    /\ script = "calculate_language_stats"
    /\ returned' \in calculate_language_stats(api, year)
    /\ pc' = "done"
    /\ UNCHANGED <<script, year, api, files, requested, failed, ipumsVars,
                   vizVars, censusVars>>

CalculateOccupationIndustryStats ==
    /\ pc = "call"
    /\ script = "calculate_occupation_industry_stats"
    /\ returned' \in calculate_occupation_industry_stats(api, year)
    /\ pc' = "done"
    /\ UNCHANGED <<script, year, api, files, requested, failed, ipumsVars,
                   vizVars, censusVars>>

StatsNext ==
    \/ CalculateEmploymentStats
    \/ CalculateLanguageStats
    \/ CalculateOccupationIndustryStats

StatsSpec == StatsInit /\ [][StatsNext]_vars

\* a rate cell holds 100 * num / den, rounded, and lies in [0, 100]
IsRateOf(cell, num, den) ==
    /\ cell = Rate(Num(num), Num(den))
    /\ IsNum(cell)
    /\ 0 <= cell.n /\ cell.n <= Percent * Pow10(RoundDigits)

\* C14: the rates calculate_employment_stats and calculate_language_stats
\* return for a state are 100 times the weighted numerator of that state over
\* the weighted population of the age group (16 and over, 5 and over) of that
\* same state, and so lie between 0 and 100.
C14_RateOverOwnStatePopulation ==
    (/\ pc = "done"
     /\ script \in {"calculate_employment_stats", "calculate_language_stats"}) =>
        /\ ~returned.raised
        /\ \A r \in DOMAIN returned.value :
              LET row == returned.value[r]
                  st == CHOOSE s \in Groups(api, DOMAIN api) : ZFill2(s) = row.state
                  aged(a) == { i \in InState(api, DOMAIN api, st) : api[i].AGE >= a }
                  w(I) == SumPerwtOf(api, I)
              IN  IF script = "calculate_employment_stats"
                  THEN aged(16) # {} =>
                         IsRateOf(row.labor_force_participation,
                                  w({ i \in aged(16) : api[i].EMPSTAT \in {1, 2} }),
                                  w(aged(16)))
                  ELSE aged(5) # {} =>
                         /\ IsRateOf(row.english_only_rate,
                                     w({ i \in aged(5) : api[i].SPEAKENG = 1 }),
                                     w(aged(5)))
                         /\ IsRateOf(row.other_language_rate,
                                     w({ i \in aged(5) : api[i].SPEAKENG \in {2, 3, 4, 5} }),
                                     w(aged(5)))
                         /\ IsRateOf(row.limited_english_rate,
                                     w({ i \in aged(5) : api[i].SPEAKENG \in {3, 4, 5} }),
                                     w(aged(5)))

\* C20: when at least one person of the input is employed,
\* calculate_occupation_industry_stats returns without raising, and the frame
\* has exactly one row for every state of the input, the states without an
\* employed person included.
C20_OneRowPerStateWithoutRaising ==
    (/\ pc = "done"
     /\ script = "calculate_occupation_industry_stats"
     /\ \E i \in DOMAIN api : api[i].EMPSTAT = 1) =>
        /\ ~returned.raised
        /\ Len(returned.value) = Cardinality(Groups(api, DOMAIN api))
        /\ \A st \in Groups(api, DOMAIN api) :
              \E r \in DOMAIN returned.value : returned.value[r].state = ZFill2(st)

---------------------------------------------------------------------------
(* download_ipums_pr_specific_data.py: process_ipums_pr_data.  The output  *)
(* directory is a function from the statistic to its CSV of the year.      *)
(* The frames of employment, language and occupation/industry are the ones *)
(* computed above; of the other statistics only the columns every frame    *)
(* has (NAME, total_population, state, year) are kept.                     *)

\* the statistics in the order of the function body
Statistics ==
    <<"poverty", "housing", "income", "education", "employment", "demographics",
      "language", "family", "generation", "occupation_industry">>
StatisticNames == { Statistics[i] : i \in DOMAIN Statistics }

\* the columns of the microdata that the function tests or reads
AllColumns ==
    {"BPLD", "BPL", "STATEFIP", "PERWT", "POVERTY", "EDUC", "EMPSTAT", "LABFORCE",
     "OCC", "IND", "INCTOT", "FTOTINC", "LANGUAGED", "SPEAKENG", "AGE", "HHWT",
     "HHTYPE", "FAMSIZE", "RENT", "VALUEH"}

\* the test of the if statement around statistic s
Wanted(s, columns) ==
    CASE s = "poverty" -> "POVERTY" \in columns
      [] s = "housing" -> "RENT" \in columns \/ "VALUEH" \in columns
      [] s = "income" -> "INCTOT" \in columns \/ "FTOTINC" \in columns
      [] s = "education" -> "EDUC" \in columns
      [] s = "employment" -> "EMPSTAT" \in columns \/ "LABFORCE" \in columns
      [] s = "demographics" -> TRUE
      [] s = "language" -> "SPEAKENG" \in columns \/ "LANGUAGED" \in columns
      [] s = "family" -> "FAMSIZE" \in columns \/ "HHTYPE" \in columns
      [] s = "generation" -> "BPL" \in columns
      [] s = "occupation_industry" -> "OCC" \in columns \/ "IND" \in columns

\* the columns calculate_<s>_stats reads whatever the records hold; reading
\* a column the frame does not have raises KeyError
Reads(s) ==
    CASE s = "poverty" -> {"POVERTY", "STATEFIP"}
      [] s = "housing" -> {"RENT", "VALUEH", "STATEFIP"}
      [] s = "income" -> {"INCTOT", "STATEFIP"}
      [] s = "education" -> {"AGE", "EDUC", "STATEFIP", "PERWT"}
      [] s = "employment" -> {"AGE", "EMPSTAT", "STATEFIP", "PERWT"}
      [] s = "demographics" -> {"AGE", "STATEFIP", "PERWT"}
      [] s = "language" -> {"AGE", "SPEAKENG", "STATEFIP", "PERWT"}
      [] s = "family" -> {"HHWT", "STATEFIP"}
      [] s = "generation" -> {"STATEFIP"}
      [] s = "occupation_industry" -> {"EMPSTAT", "STATEFIP"}

\* the columns every returned frame has
SummaryRow(df, y, st) ==
    [NAME |-> STATE_FIPS_TO_NAME(ZFill2(st)),
     total_population |-> Num(SumPerwtOf(df, InState(df, DOMAIN df, st))),
     state |-> ZFill2(st),
     year |-> y]

\* calculate_<s>_stats(pr_born, year): the frames it can return, or that it
\* raises
Calculate(s, df, columns, y) ==
    IF ~(Reads(s) \subseteq columns) THEN { RaisedError("KeyError") }
    ELSE CASE s = "employment" -> calculate_employment_stats(df, y)
           [] s = "language" -> calculate_language_stats(df, y)
           [] s = "occupation_industry" -> calculate_occupation_industry_stats(df, y)
           [] OTHER ->
                { Result(f) :
                    f \in SortDescending(
                              { SummaryRow(df, y, st) : st \in Groups(df, DOMAIN df) },
                              "total_population") }

\* how a call of process_ipums_pr_data ended: the output directory, the
\* statistics saved in order, the statistic whose computation or to_csv
\* raised inside the try block, and whether an exception left the function
Ended(f, saved, except, raised) ==
    [files |-> f, printed |-> saved, failed |-> except, raised |-> raised]

\* RunStatistics with a try block of its own around each statistic
RECURSIVE RunStatisticsEachTried(_, _, _, _, _)
RunStatisticsEachTried(i, df, columns, y, acc) ==
    IF i > Len(Statistics) THEN { acc }
    ELSE LET s == Statistics[i]
         IN  IF ~Wanted(s, columns)
             THEN RunStatisticsEachTried(i + 1, df, columns, y, acc)
             ELSE UNION {
                    IF r.raised
                    THEN RunStatisticsEachTried(i + 1, df, columns, y,
                             [acc EXCEPT !.failed = @ \cup {s}])
                    ELSE RunStatisticsEachTried(i + 1, df, columns, y,
                             [acc EXCEPT !.files[s] = Csv(r.value),
                                         !.printed = Append(@, s)])
                    : r \in Calculate(s, df, columns, y) }

\* the statistics from the i-th on, inside the one try block: a statistic
\* that raises, or whose to_csv cannot open its file, ends the block
RECURSIVE RunStatistics(_, _, _, _, _)
RunStatistics(i, df, columns, y, acc) ==
    IF i > Len(Statistics) THEN { acc }
    ELSE LET s == Statistics[i]
         IN  IF ~Wanted(s, columns)
             THEN RunStatistics(i + 1, df, columns, y, acc)
             ELSE UNION {
                    IF r.raised
                    THEN { [acc EXCEPT !.failed = {s}] }
                    ELSE { [acc EXCEPT !.failed = {s}] }
                         \cup RunStatistics(i + 1, df, columns, y,
                                  [acc EXCEPT !.files[s] = Csv(r.value),
                                              !.printed = Append(@, s)])
                    : r \in Calculate(s, df, columns, y) }

\* process_ipums_pr_data(download_path, year, output_dir): how the call can
\* end, old being the output directory before it
process_ipums_pr_data(dir, m, y, old) ==
    IF ~dir.dat THEN { Ended(old, <<>>, {}, FALSE) }
    ELSE IF ~dir.xml THEN { Ended(old, <<>>, {}, FALSE) }
    \* the readers raise inside the try block
    ELSE IF ~dir.readable THEN { Ended(old, <<>>, {"read"}, FALSE) }
    \* microdata['BPLD'] raises KeyError inside the try block
    ELSE IF "BPLD" \notin dir.columns THEN { Ended(old, <<>>, {"filter"}, FALSE) }
    ELSE IF Len(PrBorn(m)) = 0 THEN { Ended(old, <<>>, {}, FALSE) }
    ELSE RunStatistics(1, PrBorn(m), dir.columns, y, Ended(old, <<>>, {}, FALSE))

\* a download directory of the extract and the columns of its data file
PrDir(d, columns) ==
    [exists |-> d.exists, dat |-> d.dat, xml |-> d.xml, readable |-> d.readable,
     columns |-> columns]
PrDirKinds ==
    { PrDir(d, AllColumns) : d \in DirKinds }
    \cup { PrDir(CompleteDir, AllColumns \ c) :
             c \in { {"POVERTY"}, {"VALUEH"}, {"EMPSTAT"}, {"BPL"}, {"OCC", "IND"},
                     {"BPLD"} } }

\* the person records of the extract: born in Puerto Rico and employed in
\* Alabama, employed in Alaska, not in the labor force in Alaska; born
\* elsewhere
PrMicrodataPersons ==
    { [BPLD |-> PUERTO_RICO_BPL, STATEFIP |-> 1, AGE |-> 30, EMPSTAT |-> 1,
       SPEAKENG |-> 1, PERWT |-> 100],
      [BPLD |-> PUERTO_RICO_BPL, STATEFIP |-> 2, AGE |-> 30, EMPSTAT |-> 1,
       SPEAKENG |-> 4, PERWT |-> 200],
      [BPLD |-> PUERTO_RICO_BPL, STATEFIP |-> 2, AGE |-> 10, EMPSTAT |-> 3,
       SPEAKENG |-> 1, PERWT |-> 50],
      [BPLD |-> 25000, STATEFIP |-> 1, AGE |-> 30, EMPSTAT |-> 1,
       SPEAKENG |-> 1, PERWT |-> 100] }
PrMicrodata == UNION { [1 .. n -> PrMicrodataPersons] : n \in 0 .. MaxRecords }

\* a file an earlier call left in the output directory
OldStatistic == Csv(<<>>)

PrProcessInit ==
    /\ pc = "process"
    /\ script = "download_ipums_pr_specific_data"
    /\ year = 2021
    /\ api \in PrMicrodata
    /\ \E dir \in PrDirKinds : downloaded = [y \in {year} |-> dir]
    /\ \E old \in {{}, StatisticNames} :
          files = [s \in StatisticNames |-> IF s \in old THEN OldStatistic ELSE NoFile]
    /\ requested = <<>>
    /\ failed = {}
    /\ api_key = "key" /\ wait_time = 0 /\ check_count = 1 /\ status = "completed"
    /\ VizIdle
    /\ FirstRun
    /\ NoCall

ProcessIpumsPr ==
    /\ pc = "process"
    /\ \E o \in process_ipums_pr_data(downloaded[year], api, year, files) :
          /\ files' = o.files
          /\ printed' = o.printed
          /\ failed' = o.failed
          /\ returned' = IF o.raised THEN RaisedError("Exception") ELSE Result("None")
    /\ pc' = "done"
    /\ UNCHANGED <<script, year, api, requested, ipumsVars, fs, html, called,
                   censusVars>>

PrProcessNext == ProcessIpumsPr

PrProcessSpec == PrProcessInit /\ [][PrProcessNext]_vars

\* the statistics of Statistics[1 .. n] whose if statement holds, in order
RECURSIVE WantedUpTo(_, _)
WantedUpTo(n, columns) ==
    IF n = 0 THEN <<>>
    ELSE IF Wanted(Statistics[n], columns)
         THEN Append(WantedUpTo(n - 1, columns), Statistics[n])
         ELSE WantedUpTo(n - 1, columns)

\* C16: process_ipums_pr_data saves its CSVs in the order poverty, housing,
\* income, education, employment, demographics, language, family,
\* generation, occupation/industry; when a statistic raises, the files saved
\* before it are in the directory, the file of that statistic and of every
\* later one is as it was before the call, and the call returns.
C16_FixedOrderAndStopAtFirstFailure ==
    (pc = "done" /\ script = "download_ipums_pr_specific_data") =>
        LET columns == downloaded[year].columns
        IN  /\ ~returned.raised
            /\ \E n \in 0 .. Len(Statistics) : printed = WantedUpTo(n, columns)
            /\ \A i \in DOMAIN printed : files[printed[i]].exists
            /\ \A i \in DOMAIN Statistics :
                  Statistics[i] \in failed =>
                     /\ printed = WantedUpTo(i - 1, columns)
                     /\ \A j \in i .. Len(Statistics) :
                           files[Statistics[j]] = before[Statistics[j]]

\* the occupation/industry statistic raises after nine files were saved
C16_Witness ==
    /\ pc = "done"
    /\ script = "download_ipums_pr_specific_data"
    /\ failed = {"occupation_industry"}
    /\ Len(printed) = 9
    /\ files["generation"].exists
    /\ ~files["occupation_industry"].exists

---------------------------------------------------------------------------
(* process_ipums_pr_data on extracts that lack one column of a pair the    *)
(* function tests with 'A in columns or B in columns'.                     *)

\* the statistics behind such a test and the two columns it names
EitherColumn ==
    [housing |-> {"RENT", "VALUEH"}, income |-> {"INCTOT", "FTOTINC"},
     employment |-> {"EMPSTAT", "LABFORCE"}, language |-> {"SPEAKENG", "LANGUAGED"}]

\* the extract has every column but one of a pair
OneColumnDirs ==
    { PrDir(CompleteDir, AllColumns \ {c}) :
        c \in UNION { EitherColumn[s] : s \in DOMAIN EitherColumn } }

GuardInit ==
    /\ pc = "process"
    /\ script = "download_ipums_pr_specific_data"
    /\ year = 2021
    /\ api \in PrMicrodata
    /\ \E dir \in OneColumnDirs : downloaded = [y \in {year} |-> dir]
    /\ files = [s \in StatisticNames |-> NoFile]
    /\ requested = <<>>
    /\ failed = {}
    /\ api_key = "key" /\ wait_time = 0 /\ check_count = 1 /\ status = "completed"
    /\ VizIdle
    /\ FirstRun
    /\ NoCall

GuardSpec == GuardInit /\ [][PrProcessNext]_vars

\* C21: when process_ipums_pr_data reaches the housing, income, employment
\* or language block and one of the two columns of its test is in the
\* extract, the statistic is computed without raising and its CSV is written
\* (unless to_csv itself cannot open the file).
C21_EitherColumnSuffices ==
    (pc = "done" /\ script = "download_ipums_pr_specific_data") =>
        LET columns == downloaded[year].columns
        IN  \A i \in DOMAIN Statistics :
               LET s == Statistics[i]
               IN  ( /\ s \in DOMAIN EitherColumn
                     /\ EitherColumn[s] \cap columns # {}
                     /\ Len(PrBorn(api)) > 0
                     /\ Len(printed) >= Len(WantedUpTo(i - 1, columns)) )
                   => /\ \A r \in Calculate(s, PrBorn(api), columns, year) : ~r.raised
                      /\ s \in failed \/ \E j \in DOMAIN printed : printed[j] = s

---------------------------------------------------------------------------
(* download_nhgis_data.py: process_nhgis_csv, called by                    *)
(* process_nhgis_download and by process_nhgis_files.py.  A text of the    *)
(* CSV file (a column name, a cell) is the sequence of the Unicode code    *)
(* points of its characters, so that every character Python's str holds    *)
(* is one element; a CSV file is its header and its rows, every cell the   *)
(* text as it stands in the file; the output directory is a function from  *)
(* the output file name to the CSV.                                        *)

Char(s, i) == SubSeq(s, i, i)

\* the printable ASCII characters but the grave accent, in the order of
\* their codes: from 32 and from 97
Printable ==
    << " !\"#$%&'()*+,-./0123456789:;<=>?@ABCDEFGHIJKLMNOPQRSTUVWXYZ[\\]^_",
       "abcdefghijklmnopqrstuvwxyz{|}~" >>

\* ord() of such a character
AsciiCode ==
    LET Codes(s, first) ==
            [c \in { Char(s, i) : i \in 1 .. Len(s) } |->
                first - 1 + CHOOSE i \in 1 .. Len(s) : Char(s, i) = c]
    IN  Codes(Printable[1], 32) @@ Codes(Printable[2], 97)

\* the code points of a text written here as a string of printable ASCII
CodePoints(s) == [i \in 1 .. Len(s) |-> AsciiCode[Char(s, i)]]

\* The tables of str.lower() are those of Unicode 14.0.0 (Python 3.11).
\* <<first, last, step, d>>: the characters first, first + step, ... up to
\* last have the lower case character d code points further on.  U+0130 is
\* not in the table: its lower case is two characters.
LowerRanges ==
    { <<65, 90, 1, 32>>, <<192, 214, 1, 32>>, <<216, 222, 1, 32>>,
      <<256, 302, 2, 1>>, <<306, 310, 2, 1>>, <<313, 327, 2, 1>>,
      <<330, 374, 2, 1>>, <<376, 376, 1, -121>>, <<377, 381, 2, 1>>,
      <<385, 385, 1, 210>>, <<386, 388, 2, 1>>, <<390, 390, 1, 206>>,
      <<391, 391, 1, 1>>, <<393, 394, 1, 205>>, <<395, 395, 1, 1>>,
      <<398, 398, 1, 79>>, <<399, 399, 1, 202>>, <<400, 400, 1, 203>>,
      <<401, 401, 1, 1>>, <<403, 403, 1, 205>>, <<404, 404, 1, 207>>,
      <<406, 406, 1, 211>>, <<407, 407, 1, 209>>, <<408, 408, 1, 1>>,
      <<412, 412, 1, 211>>, <<413, 413, 1, 213>>, <<415, 415, 1, 214>>,
      <<416, 420, 2, 1>>, <<422, 422, 1, 218>>, <<423, 423, 1, 1>>,
      <<425, 425, 1, 218>>, <<428, 428, 1, 1>>, <<430, 430, 1, 218>>,
      <<431, 431, 1, 1>>, <<433, 434, 1, 217>>, <<435, 437, 2, 1>>,
      <<439, 439, 1, 219>>, <<440, 440, 1, 1>>, <<444, 444, 1, 1>>,
      <<452, 452, 1, 2>>, <<453, 453, 1, 1>>, <<455, 455, 1, 2>>,
      <<456, 456, 1, 1>>, <<458, 458, 1, 2>>, <<459, 475, 2, 1>>,
      <<478, 494, 2, 1>>, <<497, 497, 1, 2>>, <<498, 500, 2, 1>>,
      <<502, 502, 1, -97>>, <<503, 503, 1, -56>>, <<504, 542, 2, 1>>,
      <<544, 544, 1, -130>>, <<546, 562, 2, 1>>, <<570, 570, 1, 10795>>,
      <<571, 571, 1, 1>>, <<573, 573, 1, -163>>, <<574, 574, 1, 10792>>,
      <<577, 577, 1, 1>>, <<579, 579, 1, -195>>, <<580, 580, 1, 69>>,
      <<581, 581, 1, 71>>, <<582, 590, 2, 1>>, <<880, 882, 2, 1>>,
      <<886, 886, 1, 1>>, <<895, 895, 1, 116>>, <<902, 902, 1, 38>>,
      <<904, 906, 1, 37>>, <<908, 908, 1, 64>>, <<910, 911, 1, 63>>,
      <<913, 929, 1, 32>>, <<931, 939, 1, 32>>, <<975, 975, 1, 8>>,
      <<984, 1006, 2, 1>>, <<1012, 1012, 1, -60>>, <<1015, 1015, 1, 1>>,
      <<1017, 1017, 1, -7>>, <<1018, 1018, 1, 1>>, <<1021, 1023, 1, -130>>,
      <<1024, 1039, 1, 80>>, <<1040, 1071, 1, 32>>, <<1120, 1152, 2, 1>>,
      <<1162, 1214, 2, 1>>, <<1216, 1216, 1, 15>>, <<1217, 1229, 2, 1>>,
      <<1232, 1326, 2, 1>>, <<1329, 1366, 1, 48>>, <<4256, 4293, 1, 7264>>,
      <<4295, 4295, 1, 7264>>, <<4301, 4301, 1, 7264>>,
      <<5024, 5103, 1, 38864>>, <<5104, 5109, 1, 8>>,
      <<7312, 7354, 1, -3008>>, <<7357, 7359, 1, -3008>>,
      <<7680, 7828, 2, 1>>, <<7838, 7838, 1, -7615>>, <<7840, 7934, 2, 1>>,
      <<7944, 7951, 1, -8>>, <<7960, 7965, 1, -8>>, <<7976, 7983, 1, -8>>,
      <<7992, 7999, 1, -8>>, <<8008, 8013, 1, -8>>, <<8025, 8031, 2, -8>>,
      <<8040, 8047, 1, -8>>, <<8072, 8079, 1, -8>>, <<8088, 8095, 1, -8>>,
      <<8104, 8111, 1, -8>>, <<8120, 8121, 1, -8>>, <<8122, 8123, 1, -74>>,
      <<8124, 8124, 1, -9>>, <<8136, 8139, 1, -86>>, <<8140, 8140, 1, -9>>,
      <<8152, 8153, 1, -8>>, <<8154, 8155, 1, -100>>, <<8168, 8169, 1, -8>>,
      <<8170, 8171, 1, -112>>, <<8172, 8172, 1, -7>>,
      <<8184, 8185, 1, -128>>, <<8186, 8187, 1, -126>>,
      <<8188, 8188, 1, -9>>, <<8486, 8486, 1, -7517>>,
      <<8490, 8490, 1, -8383>>, <<8491, 8491, 1, -8262>>,
      <<8498, 8498, 1, 28>>, <<8544, 8559, 1, 16>>, <<8579, 8579, 1, 1>>,
      <<9398, 9423, 1, 26>>, <<11264, 11311, 1, 48>>, <<11360, 11360, 1, 1>>,
      <<11362, 11362, 1, -10743>>, <<11363, 11363, 1, -3814>>,
      <<11364, 11364, 1, -10727>>, <<11367, 11371, 2, 1>>,
      <<11373, 11373, 1, -10780>>, <<11374, 11374, 1, -10749>>,
      <<11375, 11375, 1, -10783>>, <<11376, 11376, 1, -10782>>,
      <<11378, 11378, 1, 1>>, <<11381, 11381, 1, 1>>,
      <<11390, 11391, 1, -10815>>, <<11392, 11490, 2, 1>>,
      <<11499, 11501, 2, 1>>, <<11506, 11506, 1, 1>>, <<42560, 42604, 2, 1>>,
      <<42624, 42650, 2, 1>>, <<42786, 42798, 2, 1>>, <<42802, 42862, 2, 1>>,
      <<42873, 42875, 2, 1>>, <<42877, 42877, 1, -35332>>,
      <<42878, 42886, 2, 1>>, <<42891, 42891, 1, 1>>,
      <<42893, 42893, 1, -42280>>, <<42896, 42898, 2, 1>>,
      <<42902, 42920, 2, 1>>, <<42922, 42922, 1, -42308>>,
      <<42923, 42923, 1, -42319>>, <<42924, 42924, 1, -42315>>,
      <<42925, 42925, 1, -42305>>, <<42926, 42926, 1, -42308>>,
      <<42928, 42928, 1, -42258>>, <<42929, 42929, 1, -42282>>,
      <<42930, 42930, 1, -42261>>, <<42931, 42931, 1, 928>>,
      <<42932, 42946, 2, 1>>, <<42948, 42948, 1, -48>>,
      <<42949, 42949, 1, -42307>>, <<42950, 42950, 1, -35384>>,
      <<42951, 42953, 2, 1>>, <<42960, 42960, 1, 1>>, <<42966, 42968, 2, 1>>,
      <<42997, 42997, 1, 1>>, <<65313, 65338, 1, 32>>,
      <<66560, 66599, 1, 40>>, <<66736, 66771, 1, 40>>,
      <<66928, 66964, 2, 39>>, <<66929, 66937, 2, 39>>,
      <<66941, 66953, 2, 39>>, <<66957, 66961, 2, 39>>,
      <<66965, 66965, 1, 39>>, <<68736, 68786, 1, 64>>,
      <<71840, 71871, 1, 32>>, <<93760, 93791, 1, 32>>,
      <<125184, 125217, 1, 34>> }

CasedRanges ==
    { <<65, 90>>, <<97, 122>>, <<170, 170>>, <<181, 181>>, <<186, 186>>,
      <<192, 214>>, <<216, 246>>, <<248, 442>>, <<444, 447>>, <<452, 659>>,
      <<661, 687>>, <<880, 883>>, <<886, 887>>, <<891, 893>>, <<895, 895>>,
      <<902, 902>>, <<904, 906>>, <<908, 908>>, <<910, 929>>, <<931, 1013>>,
      <<1015, 1153>>, <<1162, 1327>>, <<1329, 1366>>, <<1376, 1416>>,
      <<4256, 4293>>, <<4295, 4295>>, <<4301, 4301>>, <<4304, 4346>>,
      <<4349, 4351>>, <<5024, 5109>>, <<5112, 5117>>, <<7296, 7304>>,
      <<7312, 7354>>, <<7357, 7359>>, <<7424, 7467>>, <<7531, 7543>>,
      <<7545, 7578>>, <<7680, 7957>>, <<7960, 7965>>, <<7968, 8005>>,
      <<8008, 8013>>, <<8016, 8023>>, <<8025, 8025>>, <<8027, 8027>>,
      <<8029, 8029>>, <<8031, 8061>>, <<8064, 8116>>, <<8118, 8124>>,
      <<8126, 8126>>, <<8130, 8132>>, <<8134, 8140>>, <<8144, 8147>>,
      <<8150, 8155>>, <<8160, 8172>>, <<8178, 8180>>, <<8182, 8188>>,
      <<8450, 8450>>, <<8455, 8455>>, <<8458, 8467>>, <<8469, 8469>>,
      <<8473, 8477>>, <<8484, 8484>>, <<8486, 8486>>, <<8488, 8488>>,
      <<8490, 8493>>, <<8495, 8500>>, <<8505, 8505>>, <<8508, 8511>>,
      <<8517, 8521>>, <<8526, 8526>>, <<8544, 8575>>, <<8579, 8580>>,
      <<9398, 9449>>, <<11264, 11387>>, <<11390, 11492>>, <<11499, 11502>>,
      <<11506, 11507>>, <<11520, 11557>>, <<11559, 11559>>, <<11565, 11565>>,
      <<42560, 42605>>, <<42624, 42651>>, <<42786, 42863>>, <<42865, 42887>>,
      <<42891, 42894>>, <<42896, 42954>>, <<42960, 42961>>, <<42963, 42963>>,
      <<42965, 42969>>, <<42997, 42998>>, <<43002, 43002>>, <<43824, 43866>>,
      <<43872, 43880>>, <<43888, 43967>>, <<64256, 64262>>, <<64275, 64279>>,
      <<65313, 65338>>, <<65345, 65370>>, <<66560, 66639>>, <<66736, 66771>>,
      <<66776, 66811>>, <<66928, 66938>>, <<66940, 66954>>, <<66956, 66962>>,
      <<66964, 66965>>, <<66967, 66977>>, <<66979, 66993>>, <<66995, 67001>>,
      <<67003, 67004>>, <<68736, 68786>>, <<68800, 68850>>, <<71840, 71903>>,
      <<93760, 93823>>, <<119808, 119892>>, <<119894, 119964>>,
      <<119966, 119967>>, <<119970, 119970>>, <<119973, 119974>>,
      <<119977, 119980>>, <<119982, 119993>>, <<119995, 119995>>,
      <<119997, 120003>>, <<120005, 120069>>, <<120071, 120074>>,
      <<120077, 120084>>, <<120086, 120092>>, <<120094, 120121>>,
      <<120123, 120126>>, <<120128, 120132>>, <<120134, 120134>>,
      <<120138, 120144>>, <<120146, 120485>>, <<120488, 120512>>,
      <<120514, 120538>>, <<120540, 120570>>, <<120572, 120596>>,
      <<120598, 120628>>, <<120630, 120654>>, <<120656, 120686>>,
      <<120688, 120712>>, <<120714, 120744>>, <<120746, 120770>>,
      <<120772, 120779>>, <<122624, 122633>>, <<122635, 122654>>,
      <<125184, 125251>>, <<127280, 127305>>, <<127312, 127337>>,
      <<127344, 127369>> }

CaseIgnorableRanges ==
    { <<39, 39>>, <<46, 46>>, <<58, 58>>, <<94, 94>>, <<96, 96>>,
      <<168, 168>>, <<173, 173>>, <<175, 175>>, <<180, 180>>, <<183, 184>>,
      <<688, 879>>, <<884, 885>>, <<890, 890>>, <<900, 901>>, <<903, 903>>,
      <<1155, 1161>>, <<1369, 1369>>, <<1375, 1375>>, <<1425, 1469>>,
      <<1471, 1471>>, <<1473, 1474>>, <<1476, 1477>>, <<1479, 1479>>,
      <<1524, 1524>>, <<1536, 1541>>, <<1552, 1562>>, <<1564, 1564>>,
      <<1600, 1600>>, <<1611, 1631>>, <<1648, 1648>>, <<1750, 1757>>,
      <<1759, 1768>>, <<1770, 1773>>, <<1807, 1807>>, <<1809, 1809>>,
      <<1840, 1866>>, <<1958, 1968>>, <<2027, 2037>>, <<2042, 2042>>,
      <<2045, 2045>>, <<2070, 2093>>, <<2137, 2139>>, <<2184, 2184>>,
      <<2192, 2193>>, <<2200, 2207>>, <<2249, 2306>>, <<2362, 2362>>,
      <<2364, 2364>>, <<2369, 2376>>, <<2381, 2381>>, <<2385, 2391>>,
      <<2402, 2403>>, <<2417, 2417>>, <<2433, 2433>>, <<2492, 2492>>,
      <<2497, 2500>>, <<2509, 2509>>, <<2530, 2531>>, <<2558, 2558>>,
      <<2561, 2562>>, <<2620, 2620>>, <<2625, 2626>>, <<2631, 2632>>,
      <<2635, 2637>>, <<2641, 2641>>, <<2672, 2673>>, <<2677, 2677>>,
      <<2689, 2690>>, <<2748, 2748>>, <<2753, 2757>>, <<2759, 2760>>,
      <<2765, 2765>>, <<2786, 2787>>, <<2810, 2815>>, <<2817, 2817>>,
      <<2876, 2876>>, <<2879, 2879>>, <<2881, 2884>>, <<2893, 2893>>,
      <<2901, 2902>>, <<2914, 2915>>, <<2946, 2946>>, <<3008, 3008>>,
      <<3021, 3021>>, <<3072, 3072>>, <<3076, 3076>>, <<3132, 3132>>,
      <<3134, 3136>>, <<3142, 3144>>, <<3146, 3149>>, <<3157, 3158>>,
      <<3170, 3171>>, <<3201, 3201>>, <<3260, 3260>>, <<3263, 3263>>,
      <<3270, 3270>>, <<3276, 3277>>, <<3298, 3299>>, <<3328, 3329>>,
      <<3387, 3388>>, <<3393, 3396>>, <<3405, 3405>>, <<3426, 3427>>,
      <<3457, 3457>>, <<3530, 3530>>, <<3538, 3540>>, <<3542, 3542>>,
      <<3633, 3633>>, <<3636, 3642>>, <<3654, 3662>>, <<3761, 3761>>,
      <<3764, 3772>>, <<3782, 3782>>, <<3784, 3789>>, <<3864, 3865>>,
      <<3893, 3893>>, <<3895, 3895>>, <<3897, 3897>>, <<3953, 3966>>,
      <<3968, 3972>>, <<3974, 3975>>, <<3981, 3991>>, <<3993, 4028>>,
      <<4038, 4038>>, <<4141, 4144>>, <<4146, 4151>>, <<4153, 4154>>,
      <<4157, 4158>>, <<4184, 4185>>, <<4190, 4192>>, <<4209, 4212>>,
      <<4226, 4226>>, <<4229, 4230>>, <<4237, 4237>>, <<4253, 4253>>,
      <<4348, 4348>>, <<4957, 4959>>, <<5906, 5908>>, <<5938, 5939>>,
      <<5970, 5971>>, <<6002, 6003>>, <<6068, 6069>>, <<6071, 6077>>,
      <<6086, 6086>>, <<6089, 6099>>, <<6103, 6103>>, <<6109, 6109>>,
      <<6155, 6159>>, <<6211, 6211>>, <<6277, 6278>>, <<6313, 6313>>,
      <<6432, 6434>>, <<6439, 6440>>, <<6450, 6450>>, <<6457, 6459>>,
      <<6679, 6680>>, <<6683, 6683>>, <<6742, 6742>>, <<6744, 6750>>,
      <<6752, 6752>>, <<6754, 6754>>, <<6757, 6764>>, <<6771, 6780>>,
      <<6783, 6783>>, <<6823, 6823>>, <<6832, 6862>>, <<6912, 6915>>,
      <<6964, 6964>>, <<6966, 6970>>, <<6972, 6972>>, <<6978, 6978>>,
      <<7019, 7027>>, <<7040, 7041>>, <<7074, 7077>>, <<7080, 7081>>,
      <<7083, 7085>>, <<7142, 7142>>, <<7144, 7145>>, <<7149, 7149>>,
      <<7151, 7153>>, <<7212, 7219>>, <<7222, 7223>>, <<7288, 7293>>,
      <<7376, 7378>>, <<7380, 7392>>, <<7394, 7400>>, <<7405, 7405>>,
      <<7412, 7412>>, <<7416, 7417>>, <<7468, 7530>>, <<7544, 7544>>,
      <<7579, 7679>>, <<8125, 8125>>, <<8127, 8129>>, <<8141, 8143>>,
      <<8157, 8159>>, <<8173, 8175>>, <<8189, 8190>>, <<8203, 8207>>,
      <<8216, 8217>>, <<8228, 8228>>, <<8231, 8231>>, <<8234, 8238>>,
      <<8288, 8292>>, <<8294, 8303>>, <<8305, 8305>>, <<8319, 8319>>,
      <<8336, 8348>>, <<8400, 8432>>, <<11388, 11389>>, <<11503, 11505>>,
      <<11631, 11631>>, <<11647, 11647>>, <<11744, 11775>>, <<11823, 11823>>,
      <<12293, 12293>>, <<12330, 12333>>, <<12337, 12341>>, <<12347, 12347>>,
      <<12441, 12446>>, <<12540, 12542>>, <<40981, 40981>>, <<42232, 42237>>,
      <<42508, 42508>>, <<42607, 42610>>, <<42612, 42621>>, <<42623, 42623>>,
      <<42652, 42655>>, <<42736, 42737>>, <<42752, 42785>>, <<42864, 42864>>,
      <<42888, 42890>>, <<42994, 42996>>, <<43000, 43001>>, <<43010, 43010>>,
      <<43014, 43014>>, <<43019, 43019>>, <<43045, 43046>>, <<43052, 43052>>,
      <<43204, 43205>>, <<43232, 43249>>, <<43263, 43263>>, <<43302, 43309>>,
      <<43335, 43345>>, <<43392, 43394>>, <<43443, 43443>>, <<43446, 43449>>,
      <<43452, 43453>>, <<43471, 43471>>, <<43493, 43494>>, <<43561, 43566>>,
      <<43569, 43570>>, <<43573, 43574>>, <<43587, 43587>>, <<43596, 43596>>,
      <<43632, 43632>>, <<43644, 43644>>, <<43696, 43696>>, <<43698, 43700>>,
      <<43703, 43704>>, <<43710, 43711>>, <<43713, 43713>>, <<43741, 43741>>,
      <<43756, 43757>>, <<43763, 43764>>, <<43766, 43766>>, <<43867, 43871>>,
      <<43881, 43883>>, <<44005, 44005>>, <<44008, 44008>>, <<44013, 44013>>,
      <<64286, 64286>>, <<64434, 64450>>, <<65024, 65039>>, <<65043, 65043>>,
      <<65056, 65071>>, <<65106, 65106>>, <<65109, 65109>>, <<65279, 65279>>,
      <<65287, 65287>>, <<65294, 65294>>, <<65306, 65306>>, <<65342, 65342>>,
      <<65344, 65344>>, <<65392, 65392>>, <<65438, 65439>>, <<65507, 65507>>,
      <<65529, 65531>>, <<66045, 66045>>, <<66272, 66272>>, <<66422, 66426>>,
      <<67456, 67461>>, <<67463, 67504>>, <<67506, 67514>>, <<68097, 68099>>,
      <<68101, 68102>>, <<68108, 68111>>, <<68152, 68154>>, <<68159, 68159>>,
      <<68325, 68326>>, <<68900, 68903>>, <<69291, 69292>>, <<69446, 69456>>,
      <<69506, 69509>>, <<69633, 69633>>, <<69688, 69702>>, <<69744, 69744>>,
      <<69747, 69748>>, <<69759, 69761>>, <<69811, 69814>>, <<69817, 69818>>,
      <<69821, 69821>>, <<69826, 69826>>, <<69837, 69837>>, <<69888, 69890>>,
      <<69927, 69931>>, <<69933, 69940>>, <<70003, 70003>>, <<70016, 70017>>,
      <<70070, 70078>>, <<70089, 70092>>, <<70095, 70095>>, <<70191, 70193>>,
      <<70196, 70196>>, <<70198, 70199>>, <<70206, 70206>>, <<70367, 70367>>,
      <<70371, 70378>>, <<70400, 70401>>, <<70459, 70460>>, <<70464, 70464>>,
      <<70502, 70508>>, <<70512, 70516>>, <<70712, 70719>>, <<70722, 70724>>,
      <<70726, 70726>>, <<70750, 70750>>, <<70835, 70840>>, <<70842, 70842>>,
      <<70847, 70848>>, <<70850, 70851>>, <<71090, 71093>>, <<71100, 71101>>,
      <<71103, 71104>>, <<71132, 71133>>, <<71219, 71226>>, <<71229, 71229>>,
      <<71231, 71232>>, <<71339, 71339>>, <<71341, 71341>>, <<71344, 71349>>,
      <<71351, 71351>>, <<71453, 71455>>, <<71458, 71461>>, <<71463, 71467>>,
      <<71727, 71735>>, <<71737, 71738>>, <<71995, 71996>>, <<71998, 71998>>,
      <<72003, 72003>>, <<72148, 72151>>, <<72154, 72155>>, <<72160, 72160>>,
      <<72193, 72202>>, <<72243, 72248>>, <<72251, 72254>>, <<72263, 72263>>,
      <<72273, 72278>>, <<72281, 72283>>, <<72330, 72342>>, <<72344, 72345>>,
      <<72752, 72758>>, <<72760, 72765>>, <<72767, 72767>>, <<72850, 72871>>,
      <<72874, 72880>>, <<72882, 72883>>, <<72885, 72886>>, <<73009, 73014>>,
      <<73018, 73018>>, <<73020, 73021>>, <<73023, 73029>>, <<73031, 73031>>,
      <<73104, 73105>>, <<73109, 73109>>, <<73111, 73111>>, <<73459, 73460>>,
      <<78896, 78904>>, <<92912, 92916>>, <<92976, 92982>>, <<92992, 92995>>,
      <<94031, 94031>>, <<94095, 94111>>, <<94176, 94177>>, <<94179, 94180>>,
      <<110576, 110579>>, <<110581, 110587>>, <<110589, 110590>>,
      <<113821, 113822>>, <<113824, 113827>>, <<118528, 118573>>,
      <<118576, 118598>>, <<119143, 119145>>, <<119155, 119170>>,
      <<119173, 119179>>, <<119210, 119213>>, <<119362, 119364>>,
      <<121344, 121398>>, <<121403, 121452>>, <<121461, 121461>>,
      <<121476, 121476>>, <<121499, 121503>>, <<121505, 121519>>,
      <<122880, 122886>>, <<122888, 122904>>, <<122907, 122913>>,
      <<122915, 122916>>, <<122918, 122922>>, <<123184, 123197>>,
      <<123566, 123566>>, <<123628, 123631>>, <<125136, 125142>>,
      <<125252, 125259>>, <<127995, 127999>>, <<917505, 917505>>,
      <<917536, 917631>>, <<917760, 917999>> }

InRanges(c, ranges) == \E r \in ranges : r[1] <= c /\ c <= r[2]
\* CasedRanges holds the cased characters that are not case-ignorable, the
\* only ones str.lower() asks about
Cased(c) == InRanges(c, CasedRanges)
CaseIgnorable(c) == InRanges(c, CaseIgnorableRanges)

\* a capital sigma becomes a final sigma when, case-ignorable characters
\* skipped, a cased character stands before it and none stands after it
FinalSigma(s, i) ==
    LET front == { j \in 1 .. (i - 1) : ~CaseIgnorable(s[j]) }
        back == { j \in (i + 1) .. Len(s) : ~CaseIgnorable(s[j]) }
        Last(S) == CHOOSE j \in S : \A k \in S : k <= j
        First(S) == CHOOSE j \in S : \A k \in S : j <= k
    IN  /\ front # {}
        /\ Cased(s[Last(front)])
        /\ back = {} \/ ~Cased(s[First(back)])

\* the lower case of the character at i of s: one character, or two
LowerChar(s, i) ==
    LET c == s[i]
        hit == { r \in LowerRanges :
                   r[1] <= c /\ c <= r[2] /\ (c - r[1]) % r[3] = 0 }
    IN  IF c < 128 THEN IF 65 <= c /\ c <= 90 THEN <<c + 32>> ELSE <<c>>
        ELSE IF c = 304 THEN <<105, 775>>
        ELSE IF c = 931 THEN IF FinalSigma(s, i) THEN <<962>> ELSE <<963>>
        ELSE IF hit = {} THEN <<c>>
        ELSE <<c + (CHOOSE r \in hit : TRUE)[4]>>

RECURSIVE LowerFrom(_, _)
LowerFrom(s, i) ==
    IF i > Len(s) THEN <<>> ELSE LowerChar(s, i) \o LowerFrom(s, i + 1)

\* str.lower()
Lower(s) == LowerFrom(s, 1)

\* the characters str.strip() removes, those with str.isspace(): U+0009 to
\* U+000D, U+001C to U+0020, U+0085, U+00A0, U+1680, U+2000 to U+200A,
\* U+2028, U+2029, U+202F, U+205F and U+3000
Whitespace ==
    (9 .. 13) \cup (28 .. 32) \cup {133, 160, 5760} \cup (8192 .. 8202)
    \cup {8232, 8233, 8239, 8287, 12288}

\* str.strip(): s without the whitespace before its first and after its
\* last character that is none
Strip(s) ==
    LET kept == { i \in DOMAIN s : s[i] \notin Whitespace }
    IN  IF kept = {} THEN <<>>
        ELSE SubSeq(s, CHOOSE i \in kept : \A j \in kept : i <= j,
                       CHOOSE i \in kept : \A j \in kept : j <= i)

\* sub in s, sub written as a string of printable ASCII
In(sub, s) ==
    LET w == CodePoints(sub)
    IN  \E i \in 1 .. (Len(s) - Len(w) + 1) : SubSeq(s, i, i + Len(w) - 1) = w

\* the words pd.read_csv reads as a missing value, and as a boolean
NaWords ==
    { CodePoints(w) :
        w \in {"", "#N/A", "#N/A N/A", "#NA", "-1.#IND", "-1.#QNAN", "-NaN",
               "-nan", "1.#IND", "1.#QNAN", "<NA>", "N/A", "NA", "NULL", "NaN",
               "None", "n/a", "nan", "null"} }
IsTrue(s) == Lower(s) = CodePoints("true")
IsFalse(s) == Lower(s) = CodePoints("false")

\* the column is read as booleans: every cell is a boolean word or missing,
\* and not all are missing
IsBoolColumn(cells) ==
    /\ \A i \in DOMAIN cells : IsTrue(cells[i]) \/ IsFalse(cells[i]) \/ cells[i] \in NaWords
    /\ \E i \in DOMAIN cells : IsTrue(cells[i]) \/ IsFalse(cells[i])

\* the words read as an infinite number, sign apart
InfWords == { CodePoints("inf"), CodePoints("infinity") }

IsDigit(c) == 48 <= c /\ c <= 57
IsSign(c) == c = 43 \/ c = 45

\* the digits of s from i on: the position after the last of them
RECURSIVE DigitsEnd(_, _)
DigitsEnd(s, i) == IF i <= Len(s) /\ IsDigit(s[i]) THEN DigitsEnd(s, i + 1) ELSE i

\* the number a string of digits writes
RECURSIVE ParseInt(_)
ParseInt(s) ==
    IF Len(s) = 0 THEN 0
    ELSE 10 * ParseInt(SubSeq(s, 1, Len(s) - 1)) + (s[Len(s)] - 48)

\* a cell as the number parsers of pandas split it: the white space of ASCII
\* around it dropped, a sign, digits, a point and digits, and e or E with a
\* sign and digits.  ok: the whole cell is such a number, with a digit
\* before the exponent and a digit in the exponent if there is one.
NumberParts(s) ==
    LET inner == { i \in DOMAIN s : s[i] \notin (9 .. 13) \cup {32} }
        t == IF inner = {} THEN <<>>
             ELSE SubSeq(s, CHOOSE i \in inner : \A j \in inner : i <= j,
                            CHOOSE i \in inner : \A j \in inner : j <= i)
        a == IF Len(t) > 0 /\ IsSign(t[1]) THEN 2 ELSE 1
        b == DigitsEnd(t, a)
        point == b <= Len(t) /\ t[b] = 46
        c == IF point THEN DigitsEnd(t, b + 1) ELSE b
        e == c <= Len(t) /\ t[c] \in {69, 101}
        d == IF e /\ c + 1 <= Len(t) /\ IsSign(t[c + 1]) THEN c + 2 ELSE c + 1
        f == IF e THEN DigitsEnd(t, d) ELSE c
    IN  [ok |-> /\ (b - a) + (IF point THEN c - b - 1 ELSE 0) > 0
                /\ e => f > d
                /\ f = Len(t) + 1,
         negative |-> Len(t) > 0 /\ t[1] = 45,
         digits |-> SubSeq(t, a, b - 1) \o (IF point THEN SubSeq(t, b + 1, c - 1) ELSE <<>>),
         scale |-> (IF e THEN (IF d = c + 2 /\ t[c + 1] = 45 THEN -1 ELSE 1)
                                 * ParseInt(SubSeq(t, d, f - 1))
                    ELSE 0)
                   - (IF point THEN c - b - 1 ELSE 0),
         word |-> Lower(IF Len(s) > 0 /\ IsSign(s[1]) THEN Tail(s) ELSE s)]

\* int() of a finite float: the part before the point.  The counts checked
\* here stay below 2^31, with at most nine digits that count.
Truncated(p) ==
    LET m == ParseInt(p.digits)
        n == IF m = 0 \/ p.scale < -9 THEN 0
             ELSE IF p.scale >= 0 THEN m * 10 ^ p.scale
             ELSE m \div 10 ^ (-p.scale)
    IN  IF p.negative THEN -n ELSE n

\* pd.to_numeric(column, errors='coerce').fillna(0).astype(int) of a cell of
\* the column pd.read_csv gave: the number the cell writes without its
\* fraction, 1 or 0 for a boolean word of a column of booleans, 0 for a
\* missing value and for any other text; an infinite number stays infinite,
\* which astype(int) refuses
Population(s, booleans) ==
    LET p == NumberParts(s)
    IN  IF booleans THEN Num(IF IsTrue(s) THEN 1 ELSE 0)
        ELSE IF p.ok THEN Num(Truncated(p))
        ELSE IF p.word \in InfWords
        THEN IF Len(s) > 0 /\ s[1] = 45 THEN NegInf ELSE PosInf
        ELSE Num(0)

\* the keys of STATE_FIPS_TO_NAME
StateKeys ==
    {"01", "02", "04", "05", "06", "08", "09", "10", "11", "12", "13", "15", "16",
     "17", "18", "19", "20", "21", "22", "23", "24", "25", "26", "27", "28", "29",
     "30", "31", "32", "33", "34", "35", "36", "37", "38", "39", "40", "41", "42",
     "44", "45", "46", "47", "48", "49", "50", "51", "53", "54", "55", "56", "72"}

\* the names of the states, and their lower case
StateName == [k \in StateKeys |-> CodePoints(STATE_FIPS_TO_NAME(k))]
StateNameLower == [k \in StateKeys |-> Lower(StateName[k])]

\* result['NAME'].map(NAME_TO_FIPS): NaN is written as ""
NAME_TO_FIPS(name) ==
    IF \E k \in StateKeys : StateName[k] = name
    THEN CHOOSE k \in StateKeys : StateName[k] = name
    ELSE ""

\* the first column naming Puerto Rico, else the first Spanish or Hispanic
\* origin column naming 'pr'; 0 stands for None
PrColumn(columns) ==
    LET puerto == { i \in DOMAIN columns : In("puerto", Lower(columns[i])) }
        origin == { i \in DOMAIN columns :
                      LET c == Lower(columns[i])
                      IN  /\ In("spanish", c) \/ In("hispanic", c)
                          /\ In("pr", c) \/ In("puerto", c) }
        First(S) == CHOOSE i \in S : \A j \in S : i <= j
    IN  IF puerto # {} THEN First(puerto)
        ELSE IF origin # {} THEN First(origin)
        ELSE 0

IsStateName(c) ==
    c = CodePoints("state") \/ c = CodePoints("statename") \/ In("state_name", c)
IsGisJoin(c) == In("gisjoin", c) \/ In("geoid", c)

\* the column NAME is taken from: the last state name column, else the last
\* GISJOIN or GEOID column, else the first column
NameColumn(columns) ==
    LET names == { i \in DOMAIN columns :
                     LET c == Lower(columns[i])
                     IN  \/ IsStateName(c)
                         \/ ~IsGisJoin(c) /\ In("name", c) /\ In("state", c) }
        codes == { i \in DOMAIN columns :
                     LET c == Lower(columns[i]) IN ~IsStateName(c) /\ IsGisJoin(c) }
        Last(S) == CHOOSE i \in S : \A j \in S : j <= i
    IN  IF names # {} THEN Last(names)
        ELSE IF codes # {} THEN Last(codes)
        ELSE 1

\* MatchState leaving NAME as the file has it
MatchStateKeepsName(name) ==
    IF NAME_TO_FIPS(name) # "" THEN [NAME |-> name, state |-> NAME_TO_FIPS(name)]
    ELSE LET lower == Lower(Strip(name))
             hits == { k \in StateKeys : lower = StateNameLower[k] }
         IN  IF hits = {} THEN [state |-> ""]
             ELSE [NAME |-> name, state |-> CHOOSE k \in hits : TRUE]

\* NAME and state of a row whose name cell is the text name: the exact name
\* of a state, else the state whose name equals it in lower case after
\* strip(), else no state; the NAME of a row without a state is not written
\* and is left out
MatchState(name) ==
    IF NAME_TO_FIPS(name) # "" THEN [NAME |-> name, state |-> NAME_TO_FIPS(name)]
    ELSE LET lower == Lower(Strip(name))
             hits == { k \in StateKeys : lower = StateNameLower[k] }
         IN  IF hits = {} THEN [state |-> ""]
             ELSE LET k == CHOOSE k \in hits : TRUE
                  IN  [NAME |-> StateName[k], state |-> k]

\* the column B03001_005E after line 322
NhgisCounts(csv) ==
    LET pr_column == PrColumn(csv.columns)
        column == [i \in DOMAIN csv.rows |-> csv.rows[i][pr_column]]
        booleans == IsBoolColumn(column)
    IN  [i \in DOMAIN csv.rows |-> Population(column[i], booleans)]

\* a row of result that has a state, m its NAME and state; year is None
\* where the year given is None or 0
NhgisRow(m, count, y) ==
    [NAME |-> m.NAME,
     B03001_005E |-> count,
     state |-> m.state,
     year |-> IF y # 0 THEN Num(y) ELSE Null]

\* sort_values('B03001_005E', ascending=False) of the rows all, a function
\* of the row labels: the rows in descending order, ties in any order
SortRows(all) ==
    LET n == Cardinality(DOMAIN all)
    IN  { [j \in 1 .. n |-> all[p[j]]] :
            p \in { q \in [1 .. n -> DOMAIN all] :
                      /\ \A a, b \in 1 .. n : a # b => q[a] # q[b]
                      /\ \A a, b \in 1 .. n :
                            a < b => all[q[a]].B03001_005E.n >= all[q[b]].B03001_005E.n } }

\* result: the rows with a state, sorted
NhgisSorted(csv, y) ==
    LET name_col == NameColumn(csv.columns)
        counts == NhgisCounts(csv)
        matched == [i \in DOMAIN csv.rows |-> MatchState(csv.rows[i][name_col])]
        kept == { i \in DOMAIN csv.rows : matched[i].state # "" }
    IN  UNION { SortRows(all) :
                  all \in { [i \in kept |-> NhgisRow(matched[i], counts[i], y)] } }

\* str(year)
RECURSIVE Decimal(_)
Decimal(n) ==
    IF n < 0 THEN "-" \o Decimal(-n)
    ELSE IF n < 10 THEN DigitStr[n + 1]
    ELSE Decimal(n \div 10) \o DigitStr[(n % 10) + 1]

\* the output file of a call; "if year" fails for None and for 0, and year
\* is 0 here where the caller passes either
NhgisOutput(y) ==
    IF y # 0 THEN "nhgis_puerto_rican_pop_" \o Decimal(y) \o ".csv"
    ELSE "nhgis_puerto_rican_pop_processed.csv"
\* the output files of process_nhgis_download
NhgisOutputs == { NhgisOutput(y) : y \in {1970, 1980, 0} }

\* process_nhgis_csv(csv_file, year, output_dir): the output directories it
\* can leave, old being the directory before the call
process_nhgis_csv(csv, y, old) ==
    LET counts == NhgisCounts(csv)
    \* pd.read_csv raises inside the try block
    IN  IF ~csv.readable THEN { old }
        ELSE IF PrColumn(csv.columns) = 0 THEN { old }
        \* astype(int) raises on an infinite count of any row
        ELSE IF \E i \in DOMAIN csv.rows : counts[i].k = "inf" THEN { old }
        \* to_csv cannot open the file, or writes it
        ELSE { old } \cup { (NhgisOutput(y) :> Csv(rows)) @@ old :
                               rows \in NhgisSorted(csv, y) }

\* the headers of the files the calls are checked with
NhgisHeaders ==
    { <<"GISJOIN", "STATE", "Puerto Rican">>,
      <<"STATE", "GISJOIN", "Total", "PUERTO RICAN ORIGIN">>,
      <<"GISJOIN", "Puerto Rican">>,
      <<"AREA", "puerto">>,
      <<"State_Name", "Spanish origin PR">>,
      <<"STATE", "Hispanic origin">>,
      <<"STATE", "Total">> }

\* the rows of the files: the GISJOIN code, the name and the count as the
\* file has them.  Among the names: florida between a vertical tab, a
\* carriage return, a space, a tab, a line feed and U+001C; CONNECTICUT
\* after U+001D to U+001F and before a form feed; puerto rico after U+2003
\* and U+00A0 and before U+3000; NEW YOR and the Kelvin sign U+212A, whose
\* lower case is k; Flor, U+0130 and da, whose lower case has a combining
\* dot; ALABAMA before the line separator U+2028.
NhgisCells ==
    << [code |-> CodePoints("G360"), name |-> CodePoints("New York"),
       count |-> CodePoints("12")],
      [code |-> CodePoints("G120"), name |-> <<11, 13>> \o CodePoints(" florida") \o <<9, 10, 28>>,
       count |-> CodePoints("12.7")],
      [code |-> CodePoints("G090"), name |-> <<29, 30, 31>> \o CodePoints("CONNECTICUT") \o <<12>>,
       count |-> <<>>],
      [code |-> CodePoints("G360"), name |-> CodePoints("NewYork"),
       count |-> CodePoints("40")],
      [code |-> <<>>, name |-> CodePoints("State Name"),
       count |-> CodePoints("Persons")],
      [code |-> CodePoints("G720"), name |-> <<8195, 160>> \o CodePoints("puerto rico") \o <<12288>>,
       count |-> CodePoints("-3.9")],
      [code |-> CodePoints("G360"), name |-> CodePoints("NEW YOR") \o <<8490>>,
       count |-> CodePoints("1e1")],
      [code |-> CodePoints("G120"), name |-> CodePoints("Flor") \o <<304>> \o CodePoints("da"),
       count |-> CodePoints("inf")],
      [code |-> CodePoints("G020"), name |-> CodePoints("Alaska"),
       count |-> CodePoints("True")],
      [code |-> CodePoints("G010"), name |-> CodePoints("ALABAMA") \o <<8232>>,
       count |-> CodePoints("FALSE")] >>

\* the cell of a row under the column named c
NhgisCell(c, t) ==
    IF c \in {"STATE", "State_Name"} THEN t.name
    ELSE IF c \in {"GISJOIN", "AREA"} THEN t.code
    ELSE t.count

\* the file with the header h and the rows ts
NhgisTable(h, ts) ==
    [readable |-> TRUE,
     columns |-> [j \in DOMAIN h |-> CodePoints(h[j])],
     rows |-> [i \in DOMAIN ts |-> [j \in DOMAIN h |-> NhgisCell(h[j], ts[i])]]]

\* the sequences of up to MaxRecords of the rows numbered in S
NhgisRows(S) == UNION { [1 .. n -> { NhgisCells[i] : i \in S }] : n \in 0 .. MaxRecords }

\* a file pd.read_csv cannot read, the files of every header with the first
\* rows, and the files of the first header with any rows
NhgisCsvs ==
    { [readable |-> FALSE, columns |-> <<>>, rows |-> <<>>] }
    \cup { NhgisTable(h, ts) : h \in NhgisHeaders, ts \in NhgisRows(1 .. 4) }
    \cup { NhgisTable(<<"GISJOIN", "STATE", "Puerto Rican">>, ts) :
             ts \in NhgisRows(DOMAIN NhgisCells) }

\* the years of the calls: those process_nhgis_download finds in the path,
\* None (0 here), and one typed in at the prompt of process_nhgis_files.py
NhgisInit ==
    /\ pc = "call"
    /\ script = "process_nhgis_csv"
    /\ year \in {1970, 1980, 0, 1990}
    /\ api \in NhgisCsvs
    /\ \E old \in BOOLEAN :
          files = [o \in { NhgisOutput(y) : y \in {1970, 1980, 0, 1990} } |->
                     IF old THEN OldStatistic ELSE NoFile]
    /\ requested = <<>>
    /\ failed = {}
    /\ IpumsIdle
    /\ VizIdle
    /\ FirstRun
    /\ NoCall

---------------------------------------------------------------------------
(* process_nhgis_files.py: process_nhgis_files() lists the *.csv files of  *)
(* data/nhgis_historical, leaves out those an earlier run wrote, and calls *)
(* process_nhgis_csv for each of the others with the year of its name or   *)
(* the year typed in at the prompt; the output files go to the directory   *)
(* the input files are in.  api is the input files of the directory in the *)
(* order glob.glob lists them, requested the calls of process_nhgis_csv    *)
(* made so far, failed the files left out for an invalid year, year the    *)
(* year of the file at hand (0: None).                                     *)

\* most input files of the directory
MaxFiles == 2

\* the digit 0 of every script: int() reads the ten characters from each of
\* them on as the digits 0 to 9 (Unicode 14.0.0)
DecimalZeros ==
    { 48, 1632, 1776, 1984, 2406, 2534, 2662, 2790, 2918, 3046, 3174, 3302,
      3430, 3558, 3664, 3792, 3872, 4160, 4240, 6112, 6160, 6470, 6608, 6784,
      6800, 6992, 7088, 7232, 7248, 42528, 43216, 43264, 43472, 43504, 43600,
      44016, 65296, 66720, 68912, 69734, 69872, 69942, 70096, 70384, 70736,
      70864, 71248, 71360, 71472, 71904, 72016, 72784, 73040, 73120, 92768,
      92864, 93008, 120782, 120792, 120802, 120812, 120822, 123200, 123632,
      125264, 130032 }

\* int(s): white space around the number dropped, a sign, and decimal digits
\* with single underscores between them; ok is FALSE where int raises
\* ValueError.  U+001C to U+001F are no white space to int.  The numbers of
\* the model are below 2^31.
int(s) ==
    LET inner == { i \in DOMAIN s : s[i] \notin Whitespace \ (28 .. 31) }
        t == IF inner = {} THEN <<>>
             ELSE SubSeq(s, CHOOSE i \in inner : \A j \in inner : i <= j,
                            CHOOSE i \in inner : \A j \in inner : j <= i)
        IsDecimal(c) == \E z \in DecimalZeros : z <= c /\ c <= z + 9
        Zero(c) == CHOOSE z \in DecimalZeros : z <= c /\ c <= z + 9
        a == IF Len(t) > 0 /\ IsSign(t[1]) THEN 2 ELSE 1
        body == SubSeq(t, a, Len(t))
        ok == /\ Len(body) > 0
              /\ \A i \in DOMAIN body : IsDecimal(body[i]) \/ body[i] = 95
              /\ body[1] # 95
              /\ body[Len(body)] # 95
              /\ \A i \in 1 .. (Len(body) - 1) : body[i] # 95 \/ body[i + 1] # 95
        digits == SelectSeq(body, IsDecimal)
        n == ParseInt([i \in DOMAIN digits |-> 48 + digits[i] - Zero(digits[i])])
    IN  [ok |-> ok, n |-> IF ~ok THEN 0 ELSE IF t[1] = 45 THEN -n ELSE n]

\* the year of a file as the loop finds it in the lower case of the name of
\* the file; 0 is None
FilenameYear(name) ==
    LET filename == Lower(CodePoints(name))
    IN  IF In("1970", filename) THEN 1970
        ELSE IF In("1980", filename) THEN 1980
        ELSE 0

\* the output files in the order the directory lists those that exist
NhgisOutputFiles == << NhgisOutput(1970), NhgisOutput(1980), NhgisOutput(1990), NhgisOutput(0) >>

\* csv_files: glob.glob(os.path.join(input_dir, '*.csv')), the input files
\* dir and the files of out that exist, without the files whose name holds
\* 'puerto_rican_pop_'
CsvFiles(dir, out) ==
    LET written == SelectSeq(NhgisOutputFiles, LAMBDA o : out[o].exists)
        found == dir \o [i \in DOMAIN written |-> [name |-> written[i], csv |-> out[written[i]]]]
    IN  SelectSeq(found, LAMBDA f : ~In("puerto_rican_pop_", CodePoints(f.name)))

\* the input files the runs are checked with: two of 1970 with different
\* rows, one of 1980, two without a year in the name, of which the second
\* has no Puerto Rican column, and one the filter leaves out
NhgisInputs ==
    { [name |-> "Counts_1970.csv",
       csv |-> NhgisTable(<<"GISJOIN", "STATE", "Puerto Rican">>,
                          <<NhgisCells[1], NhgisCells[2]>>)],
      [name |-> "x1970.csv",
       csv |-> NhgisTable(<<"GISJOIN", "STATE", "Puerto Rican">>,
                          <<NhgisCells[6], NhgisCells[7]>>)],
      [name |-> "nhgis0001_ds104_1980_state.csv",
       csv |-> NhgisTable(<<"State_Name", "Spanish origin PR">>,
                          <<NhgisCells[4], NhgisCells[1]>>)],
      [name |-> "counts.csv",
       csv |-> NhgisTable(<<"STATE", "GISJOIN", "Total", "PUERTO RICAN ORIGIN">>,
                          <<NhgisCells[3], NhgisCells[1]>>)],
      [name |-> "totals.csv",
       csv |-> NhgisTable(<<"STATE", "Total">>, <<NhgisCells[1]>>)],
      [name |-> "my_puerto_rican_pop_1970.csv",
       csv |-> NhgisTable(<<"GISJOIN", "Puerto Rican">>, <<NhgisCells[1]>>)] }

\* the directories: up to MaxFiles of the input files, in any order
NhgisDirectories ==
    UNION { { d \in [1 .. n -> NhgisInputs] : \A i, j \in 1 .. n : d[i] = d[j] => i = j } :
              n \in 0 .. MaxFiles }

\* what is typed in at the prompt: nothing, 1990 between spaces, 1980 in
\* full width digits, a text that is no number, and 0
Responses ==
    { <<>>, CodePoints(" 1990 "), <<65297, 65305, 65304, 65296>>,
      CodePoints("1980s"), CodePoints("0") }

NhgisFilesInit ==
    /\ pc = "glob"
    /\ script = "process_nhgis_files"
    /\ year = 0
    /\ api \in NhgisDirectories
    /\ \E old \in BOOLEAN :
          files = [o \in { NhgisOutput(y) : y \in {1970, 1980, 0, 1990} } |->
                     IF old THEN OldStatistic ELSE NoFile]
    /\ requested = <<>>
    /\ failed = {}
    /\ IpumsIdle
    /\ VizIdle
    /\ FirstRun
    /\ NoCall

\* the files of the loop, listed once before the first call
NhgisLoop == CsvFiles(api, before)
\* the file the loop is at
CsvFile == NhgisLoop[Len(requested) + Cardinality(failed) + 1]
\* the next file, or the return after the last
NextFile ==
    IF Len(requested') + Cardinality(failed') = Len(NhgisLoop)
    THEN pc' = "done" /\ returned' = Result("None")
    ELSE pc' = "file" /\ UNCHANGED returned

\* the files are listed; without one to process the function returns
FindCsvFiles ==
    /\ pc = "glob"
    /\ script = "process_nhgis_files"
    /\ UNCHANGED <<script, year, api, files, requested, failed, ipumsVars, vizVars,
                   censusVars>>
    /\ NextFile

\* one pass of the loop up to the call: the year of the name or of the
\* response, which is asked for only without a year in the name; an empty
\* response leaves the year None, one that is no integer skips the file
ProcessNhgisFile ==
    /\ pc = "file"
    /\ script = "process_nhgis_files"
    /\ UNCHANGED <<script, api, files, requested, ipumsVars, vizVars, censusVars>>
    /\ \E detected \in {FilenameYear(CsvFile.name)} :
       \E typed \in IF detected # 0 THEN {<<>>} ELSE Responses :
       \E response \in {Strip(typed)} :
          IF detected = 0 /\ response # <<>> /\ ~int(response).ok
          THEN /\ failed' = failed \cup {CsvFile.name}
               /\ year' = 0
               /\ NextFile
          ELSE /\ year' = IF detected # 0 THEN detected
                          ELSE IF response = <<>> THEN 0
                          ELSE int(response).n
               /\ pc' = "call"
               /\ UNCHANGED <<failed, returned>>

\* process_nhgis_csv(csv_file, year, output_dir), called by itself with the
\* file api, or by the loop of process_nhgis_files with the file it is at;
\* the loop goes on from the directory the call leaves
ProcessNhgisCsv ==
    /\ pc = "call"
    /\ files' \in process_nhgis_csv(IF script = "process_nhgis_files" THEN CsvFile.csv
                                     ELSE api, year, files)
    /\ UNCHANGED <<script, year, api, failed, ipumsVars, vizVars, censusVars>>
    /\ IF script = "process_nhgis_files"
       THEN /\ requested' = Append(requested, [csv_file |-> CsvFile.name, year |-> year])
            /\ NextFile
       ELSE /\ returned' = Result("None")
            /\ pc' = "done"
            /\ UNCHANGED requested

\* input() finds the end of the standard input: EOFError leaves the function
PromptEndOfFile ==
    /\ pc = "file"
    /\ script = "process_nhgis_files"
    /\ FilenameYear(CsvFile.name) = 0
    /\ year' = 0
    /\ returned' = RaisedError("EOFError")
    /\ pc' = "done"
    /\ UNCHANGED <<script, api, files, requested, failed, ipumsVars, vizVars, censusVars>>

NhgisNext ==
    \/ FindCsvFiles
    \/ ProcessNhgisFile
    \/ PromptEndOfFile
    \/ ProcessNhgisCsv

\* a call of process_nhgis_csv by itself, or a run of process_nhgis_files
NhgisStart == NhgisInit \/ NhgisFilesInit

NhgisSpec == NhgisStart /\ [][NhgisNext]_vars

\* The state each text of the files above stands for, as Python's
\* str.strip(), str.lower() and the dictionary NAME_TO_FIPS give it; "" is
\* no state.
KnownStates ==
    { <<CodePoints("New York"), "36">>,
      <<CodePoints("G360"), "">>,
      <<<<11, 13>> \o CodePoints(" florida") \o <<9, 10, 28>>, "12">>,
      <<CodePoints("G120"), "">>,
      <<<<29, 30, 31>> \o CodePoints("CONNECTICUT") \o <<12>>, "09">>,
      <<CodePoints("G090"), "">>,
      <<CodePoints("NewYork"), "">>,
      <<CodePoints("State Name"), "">>,
      <<<<>>, "">>,
      <<<<8195, 160>> \o CodePoints("puerto rico") \o <<12288>>, "72">>,
      <<CodePoints("G720"), "">>,
      <<CodePoints("NEW YOR") \o <<8490>>, "36">>,
      <<CodePoints("Flor") \o <<304>> \o CodePoints("da"), "">>,
      <<CodePoints("Alaska"), "02">>,
      <<CodePoints("G020"), "">>,
      <<CodePoints("ALABAMA") \o <<8232>>, "01">>,
      <<CodePoints("G010"), "">> }
KnownState(text) == (CHOOSE p \in KnownStates : p[1] = text)[2]

\* the column the names are read from and the Puerto Rican column (0: none)
\* of the headers above, as the loops of process_nhgis_csv find them
KnownColumns ==
    { [columns |-> <<"GISJOIN", "STATE", "Puerto Rican">>, name |-> 2, puerto |-> 3],
      [columns |-> <<"STATE", "GISJOIN", "Total", "PUERTO RICAN ORIGIN">>,
       name |-> 1, puerto |-> 4],
      [columns |-> <<"GISJOIN", "Puerto Rican">>, name |-> 1, puerto |-> 2],
      [columns |-> <<"AREA", "puerto">>, name |-> 1, puerto |-> 2],
      [columns |-> <<"State_Name", "Spanish origin PR">>, name |-> 1, puerto |-> 2],
      [columns |-> <<"STATE", "Hispanic origin">>, name |-> 1, puerto |-> 0],
      [columns |-> <<"STATE", "Total">>, name |-> 1, puerto |-> 0] }
KnownColumn(columns) ==
    CHOOSE h \in KnownColumns :
        columns = [j \in DOMAIN h.columns |-> CodePoints(h.columns[j])]

\* C22: every row of a file process_nhgis_csv writes has a state code that is
\* a key of STATE_FIPS_TO_NAME and the canonical name of that state; the file
\* holds one row for each input row whose name stands for a state, exactly
\* or in another case between white space, and no other row, in descending
\* order of population; without a Puerto Rican column the output directory
\* is left as it is.  The same holds of the calls process_nhgis_files makes
\* one after the other: a file of the directory that differs from what the
\* run found is such a file of one of the calls made with its year, for an
\* input file with a Puerto Rican column, and a file no call was made for is
\* left as it is.
C22_WrittenRowsHaveKnownStates ==
    /\ (pc = "done" /\ script = "process_nhgis_csv") =>
          /\ ~returned.raised
          /\ \A o \in DOMAIN files \ {NhgisOutput(year)} : files[o] = before[o]
          /\ ~api.readable => files = before
          /\ api.readable =>
                LET out == files[NhgisOutput(year)]
                    known == KnownColumn(api.columns)
                    states == [i \in DOMAIN api.rows |-> KnownState(api.rows[i][known.name])]
                IN  /\ known.puerto = 0 => files = before
                    /\ out # before[NhgisOutput(year)] =>
                          /\ \A r \in DOMAIN out.rows :
                                /\ out.rows[r].state \in StateKeys
                                /\ out.rows[r].NAME = StateName[out.rows[r].state]
                          /\ \A k \in StateKeys :
                                Cardinality({ r \in DOMAIN out.rows : out.rows[r].state = k })
                                   = Cardinality({ i \in DOMAIN api.rows : states[i] = k })
                          /\ \A a, b \in DOMAIN out.rows :
                                a < b => out.rows[a].B03001_005E.n
                                            >= out.rows[b].B03001_005E.n
    /\ script = "process_nhgis_files" =>
          \A o \in DOMAIN files :
              LET out == files[o]
                  calls == { c \in DOMAIN requested : NhgisOutput(requested[c].year) = o }
              IN  /\ calls = {} => out = before[o]
                  /\ out # before[o] =>
                        /\ \A r \in DOMAIN out.rows :
                              /\ out.rows[r].state \in StateKeys
                              /\ out.rows[r].NAME = StateName[out.rows[r].state]
                        /\ \A a, b \in DOMAIN out.rows :
                              a < b => out.rows[a].B03001_005E.n
                                          >= out.rows[b].B03001_005E.n
                        /\ \E c \in calls :
                              LET csv == (CHOOSE f \in NhgisInputs :
                                            f.name = requested[c].csv_file).csv
                                  known == KnownColumn(csv.columns)
                                  states == [i \in DOMAIN csv.rows |->
                                               KnownState(csv.rows[i][known.name])]
                              IN  /\ known.puerto # 0
                                  /\ \A k \in StateKeys :
                                        Cardinality({ r \in DOMAIN out.rows :
                                                        out.rows[r].state = k })
                                           = Cardinality({ i \in DOMAIN csv.rows :
                                                             states[i] = k })

\* a file of 1990 was written from rows named 'NewYork', 'NEW YOR' with the
\* Kelvin sign, and 'puerto rico' between U+2003, U+00A0 and U+3000: the
\* first is dropped, the others carry the canonical names, New York with the
\* count of '1e1' before Puerto Rico with that of '-3.9'
C22_Witness ==
    /\ pc = "done"
    /\ script = "process_nhgis_csv"
    /\ year = 1990
    /\ Len(api.rows) = 3
    /\ \E i \in DOMAIN api.rows :
          api.rows[i][2] = CodePoints("NewYork")
    /\ \E i \in DOMAIN api.rows :
          /\ api.rows[i][2] = CodePoints("NEW YOR") \o <<8490>>
          /\ api.rows[i][3] = CodePoints("1e1")
    /\ \E i \in DOMAIN api.rows :
          /\ api.rows[i][2] = <<8195, 160>> \o CodePoints("puerto rico") \o <<12288>>
          /\ api.rows[i][3] = CodePoints("-3.9")
    /\ files[NhgisOutput(1990)].exists
    /\ files[NhgisOutput(1990)].rows =
          << [NAME |-> CodePoints("New York"), B03001_005E |-> Num(10),
              state |-> "36", year |-> Num(1990)],
             [NAME |-> CodePoints("Puerto Rico"), B03001_005E |-> Num(-3),
              state |-> "72", year |-> Num(1990)] >>

---------------------------------------------------------------------------
(* download_ipums_data.py, download_ipums_pr_specific_data.py and          *)
(* download_nhgis_data.py: the download functions.  Each submits its       *)
(* extracts in turn (one per census year of samples_config, one for 2021,  *)
(* one for the two NHGIS datasets), polls the status, downloads and        *)
(* processes.  pc is the call the function is about to make, year the      *)
(* extract at hand.                                                        *)

IpumsScripts ==
    {"download_ipums_data", "download_ipums_pr_specific_data", "download_nhgis_data"}

\* years_to_download of download_ipums_pr_specific_data
years_to_download == <<2021>>

\* a *.csv file of the directory the NHGIS extract is downloaded to: its path
\* below the repository and its content
NhgisFile(name, csv) ==
    [path |-> "data/nhgis_historical/nhgis_extract/" \o name, csv |-> csv]
\* the contents of the files: a table of two states with a Puerto Rican
\* column, and one without such a column
StatesCsv ==
    NhgisTable(<<"GISJOIN", "STATE", "Puerto Rican">>,
               << [code |-> CodePoints("G120"), name |-> CodePoints("florida"),
                   count |-> CodePoints("7")],
                  [code |-> CodePoints("G360"), name |-> CodePoints("New York"),
                   count |-> CodePoints("12")] >>)
TotalsCsv ==
    NhgisTable(<<"STATE", "Total">>,
               << [code |-> <<>>, name |-> CodePoints("New York"),
                   count |-> CodePoints("100")] >>)
\* glob.glob(os.path.join(download_path, '*.csv')) on what the extract can
\* leave: no file, the file of one dataset, the files of both in either
\* order, a file whose name holds no year, one whose name holds both
NhgisDownloads ==
    { <<>>,
      << NhgisFile("nhgis0001_ds94_1970_state.csv", StatesCsv) >>,
      << NhgisFile("nhgis0001_ds94_1970_state.csv", StatesCsv),
         NhgisFile("nhgis0001_ds104_1980_state.csv", TotalsCsv) >>,
      << NhgisFile("nhgis0001_ds104_1980_state.csv", StatesCsv),
         NhgisFile("nhgis0001_ds94_1970_state.csv", TotalsCsv) >>,
      << NhgisFile("nhgis0001_state.csv", StatesCsv) >>,
      << NhgisFile("nhgis0001_1980_1970_state.csv", StatesCsv) >> }

\* the extracts of a run, in the order they are submitted
Extracts(s) ==
    CASE s = "download_ipums_data" -> SamplesConfig
      [] s = "download_ipums_pr_specific_data" -> years_to_download
      [] s = "download_nhgis_data" -> <<1970>>

\* max_wait, and the seconds of the time.sleep between two status checks
MaxWait(s) == IF s = "download_ipums_pr_specific_data" THEN 1800 ELSE max_wait
Interval(s) == IF s = "download_ipums_pr_specific_data" THEN 15 ELSE PollInterval

\* the microdata the extracts of a run hold
PrPerson(st, w) == [BPLD |-> PUERTO_RICO_BPL, STATEFIP |-> st, PERWT |-> w]
IpumsTemplates ==
    { <<>>,
      << [BPLD |-> 25000, STATEFIP |-> 36, PERWT |-> 100] >>,
      << PrPerson(36, 150), PrPerson(9, 100), PrPerson(36, 100) >> }
\* the records of the 2021 extract: none, or an employed person in Alabama
\* and a child in Alaska
PrTemplates ==
    { <<>>,
      << [BPLD |-> PUERTO_RICO_BPL, STATEFIP |-> 1, AGE |-> 30, EMPSTAT |-> 1,
          SPEAKENG |-> 1, PERWT |-> 100],
         [BPLD |-> PUERTO_RICO_BPL, STATEFIP |-> 2, AGE |-> 10, EMPSTAT |-> 3,
          SPEAKENG |-> 1, PERWT |-> 50] >> }

\* what an extract can leave in its download directory
Downloads(s) ==
    CASE s = "download_ipums_data" -> DirKinds
      [] s = "download_ipums_pr_specific_data" ->
           { PrDir(d, AllColumns) : d \in DirKinds }
           \cup { PrDir(CompleteDir, AllColumns \ {"VALUEH"}) }
      [] s = "download_nhgis_data" ->
           { [exists |-> TRUE, csv |-> c] : c \in NhgisDownloads }
NotDownloaded(s) ==
    CASE s = "download_ipums_data" -> NoDir
      [] s = "download_ipums_pr_specific_data" -> PrDir(NoDir, {})
      [] s = "download_nhgis_data" -> [exists |-> FALSE, csv |-> <<>>]
MadeDir(s) == [NotDownloaded(s) EXCEPT !.exists = TRUE]

\* the names of the output files of a script
Outputs(s) ==
    CASE s = "download_ipums_data" -> IpumsYears
      [] s = "download_ipums_pr_specific_data" -> StatisticNames
      [] s = "download_nhgis_data" -> NhgisOutputs

\* year of process_nhgis_download: 1970 if the path holds '1970', else 1980
\* if it holds '1980', else None, which is 0 here
NhgisYear(csv_file) ==
    IF In("1970", CodePoints(csv_file)) THEN 1970
    ELSE IF In("1980", CodePoints(csv_file)) THEN 1980
    ELSE 0

\* for csv_file in csv_files: process_nhgis_csv(csv_file, year, output_dir),
\* with the year of the path or with None
RECURSIVE ProcessNhgisFiles(_, _)
ProcessNhgisFiles(csv_files, old) ==
    IF csv_files = <<>> THEN { old }
    ELSE UNION { ProcessNhgisFiles(Tail(csv_files), f) :
                   f \in process_nhgis_csv(Head(csv_files).csv,
                                           NhgisYear(Head(csv_files).path), old) }

\* process_nhgis_download(download_path, output_dir): the output directories
\* it can leave; without a *.csv file it prints and returns
process_nhgis_download(dir, old) ==
    IF dir.csv = <<>> THEN { old } ELSE ProcessNhgisFiles(dir.csv, old)

\* the process function of script s on the download of extract y: the output
\* directories it can leave
Process(s, dir, m, y, old) ==
    CASE s = "download_ipums_data" ->
           { [old EXCEPT ![y] = f] : f \in ProcessIpumsData(dir, m, y, old[y]) }
      [] s = "download_ipums_pr_specific_data" ->
           { o.files : o \in process_ipums_pr_data(dir, m, y, old) }
      [] s = "download_nhgis_data" -> process_nhgis_download(dir, old)

IpumsInit ==
    /\ pc = "start"
    /\ script \in IpumsScripts
    /\ year = Extracts(script)[1]
    /\ api \in IF script = "download_ipums_data" THEN IpumsTemplates
               ELSE IF script = "download_ipums_pr_specific_data" THEN PrTemplates
               ELSE {<<>>}
    /\ files = [o \in Outputs(script) |-> NoFile]
    /\ requested = <<>>
    /\ failed = {}
    /\ api_key \in {"YOUR_API_KEY_HERE", "key"}
    /\ wait_time = 0
    /\ check_count = 0
    /\ status = ""
    /\ downloaded =
          [y \in { Extracts(script)[i] : i \in DOMAIN Extracts(script) } |->
             NotDownloaded(script)]
    /\ VizIdle
    /\ FirstRun
    /\ NoCall

\* MissingApiKey going on to the client and the loop after the message
MissingApiKeyGoesOn ==
    /\ pc = "start"
    /\ api_key = "YOUR_API_KEY_HERE"
    /\ printed' = Append(printed, "ERROR: Please set IPUMS_API_KEY")
    /\ called' = called \o <<"IpumsApiClient", "os.makedirs">>
    /\ pc' = "submit"
    /\ UNCHANGED <<script, year, api, files, requested, failed, ipumsVars, fs,
                   html, censusVars, returned>>

\* if API_KEY == 'YOUR_API_KEY_HERE': print, return
MissingApiKey ==
    /\ pc = "start"
    /\ api_key = "YOUR_API_KEY_HERE"
    /\ printed' = Append(printed, "ERROR: Please set IPUMS_API_KEY")
    /\ pc' = "done"
    /\ UNCHANGED <<script, year, api, files, requested, failed, ipumsVars, fs,
                   html, called, censusVars, returned>>

\* ipums = IpumsApiClient(API_KEY); os.makedirs(output_dir, exist_ok=True);
\* the loop is entered
EnterLoop ==
    /\ pc = "start"
    /\ api_key # "YOUR_API_KEY_HERE"
    /\ called' = called \o <<"IpumsApiClient", "os.makedirs">>
    /\ pc' = "submit"
    /\ UNCHANGED <<script, year, api, files, requested, failed, ipumsVars, fs,
                   html, printed, censusVars, returned>>

\* continue: the next extract, or the end of the function.  The timeout and
\* the handler of download_nhgis_data end the function, which has one extract.
Continue ==
    LET i == CHOOSE k \in DOMAIN Extracts(script) : Extracts(script)[k] = year
    IN  IF i = Len(Extracts(script))
        THEN pc' = "done" /\ year' = year
        ELSE pc' = "submit" /\ year' = Extracts(script)[i + 1]

\* ipums.submit_extract(extract) returns; wait_time = 0
SubmitExtract ==
    /\ pc = "submit"
    /\ requested' = Append(requested, year)
    /\ wait_time' = 0
    /\ check_count' = 0
    /\ pc' = "poll"
    /\ UNCHANGED <<script, year, api, files, failed, api_key, status, downloaded,
                   vizVars, censusVars, returned>>

\* ipums.submit_extract(extract) raises: except Exception, continue
SubmitRaises ==
    /\ pc = "submit"
    /\ requested' = Append(requested, year)
    /\ failed' = failed \cup {year}
    /\ Continue
    /\ UNCHANGED <<script, api, files, ipumsVars, vizVars, censusVars, returned>>

\* PollPending with the sleep but without wait_time += interval
PollPendingForgetsTime ==
    /\ pc = "poll"
    /\ wait_time < MaxWait(script)
    /\ check_count <= MaxWait(script) \div Interval(script)
    /\ status' \in {"queued", "started"}
    /\ check_count' = check_count + 1
    /\ UNCHANGED <<pc, script, year, api, files, requested, failed, api_key,
                   wait_time, downloaded, vizVars, censusVars, returned>>

\* a status that is neither 'completed' nor 'failed': sleep, wait_time += interval
PollPending ==
    /\ pc = "poll"
    /\ wait_time < MaxWait(script)
    /\ status' \in {"queued", "started"}
    /\ check_count' = check_count + 1
    /\ wait_time' = wait_time + Interval(script)
    /\ UNCHANGED <<pc, script, year, api, files, requested, failed, api_key,
                   downloaded, vizVars, censusVars, returned>>

\* status == 'completed': break; wait_time < max_wait, so on to the download
PollCompleted ==
    /\ pc = "poll"
    /\ wait_time < MaxWait(script)
    /\ status' = "completed"
    /\ check_count' = check_count + 1
    /\ pc' = "download"
    /\ UNCHANGED <<script, year, api, files, requested, failed, api_key, wait_time,
                   downloaded, vizVars, censusVars, returned>>

\* status == 'failed': print, return
PollFailed ==
    /\ pc = "poll"
    /\ wait_time < MaxWait(script)
    /\ status' = "failed"
    /\ check_count' = check_count + 1
    /\ failed' = failed \cup {year}
    /\ pc' = "done"
    /\ UNCHANGED <<script, year, api, files, requested, api_key, wait_time,
                   downloaded, vizVars, censusVars, returned>>

\* ipums.extract_status(extract) raises: except Exception, continue
PollRaises ==
    /\ pc = "poll"
    /\ wait_time < MaxWait(script)
    /\ failed' = failed \cup {year}
    /\ Continue
    /\ UNCHANGED <<script, api, files, requested, ipumsVars, vizVars, censusVars,
                   returned>>

\* PollTimeout without the test of wait_time after the loop
PollTimeoutDownloads ==
    /\ pc = "poll"
    /\ wait_time >= MaxWait(script)
    /\ pc' = "download"
    /\ UNCHANGED <<script, year, api, files, requested, failed, ipumsVars,
                   vizVars, censusVars, returned>>

\* the while loop ran out: if wait_time >= max_wait: print, continue (return
\* in download_nhgis_data)
PollTimeout ==
    /\ pc = "poll"
    /\ wait_time >= MaxWait(script)
    /\ failed' = failed \cup {year}
    /\ Continue
    /\ UNCHANGED <<script, api, files, requested, ipumsVars, vizVars, censusVars,
                   returned>>

\* ipums.download_extract(...) returns and the process function is run on
\* what it left in the download directory
DownloadExtract ==
    /\ pc = "download"
    /\ \E dir \in Downloads(script) :
          /\ downloaded' = [downloaded EXCEPT ![year] = dir]
          /\ files' \in Process(script, dir, api, year, files)
    /\ Continue
    /\ UNCHANGED <<script, api, requested, failed, api_key, wait_time, check_count,
                   status, vizVars, censusVars, returned>>

\* os.makedirs(download_path) is done and ipums.download_extract(...) raises:
\* except Exception, continue
DownloadRaises ==
    /\ pc = "download"
    /\ downloaded' = [downloaded EXCEPT ![year] = MadeDir(script)]
    /\ failed' = failed \cup {year}
    /\ Continue
    /\ UNCHANGED <<script, api, files, requested, api_key, wait_time, check_count,
                   status, vizVars, censusVars, returned>>

IpumsNext ==
    \/ MissingApiKey \/ EnterLoop
    \/ SubmitExtract \/ SubmitRaises
    \/ PollPending \/ PollCompleted \/ PollFailed \/ PollRaises \/ PollTimeout
    \/ DownloadExtract \/ DownloadRaises

IpumsSpec == IpumsInit /\ [][IpumsNext]_vars

\* the interpreter runs the function to its end
FairIpumsSpec == IpumsSpec /\ WF_vars(IpumsNext)

\* C6: when the extract of one census year fails (status 'failed', polling
\* timeout, or an exception), only that year is skipped: by the time
\* download_ipums_data returns, an extract has been submitted for every year of
\* samples_config, in order.
C6_FailedYearOnlySkipped ==
    (pc = "done" /\ script = "download_ipums_data" /\ api_key # "YOUR_API_KEY_HERE")
        => requested = SamplesConfig

\* C11: in the three download functions download_extract and the process
\* function run for an extract only after a status check of its polling loop
\* returned 'completed'; a 'failed' status or a timeout is never followed by
\* the download or the processing of that extract.
C11_DownloadOnlyWhenCompleted ==
    [][ /\ (downloaded' # downloaded \/ files' # files) =>
              (pc = "download" /\ status = "completed")
        /\ (pc' = "download" /\ pc # "download") =>
              /\ pc = "poll"
              /\ wait_time < MaxWait(script)
              /\ check_count' = check_count + 1
              /\ status' = "completed"
        /\ (pc = "poll" /\ (status' = "failed" \/ wait_time >= MaxWait(script))) =>
              /\ pc' # "download"
              /\ downloaded' = downloaded
              /\ files' = files ]_vars

\* the extract of 1960 ended without a download, the one of 1970 was
\* downloaded and processed into a CSV
C11_Witness ==
    /\ script = "download_ipums_data"
    /\ pc = "done"
    /\ 1960 \in failed
    /\ ~downloaded[1960].exists
    /\ downloaded[1970] = CompleteDir
    /\ files[1970].exists

\* the status checks the polling loop of script s can make for one extract
MaxChecks(s) == MaxWait(s) \div Interval(s)

\* C12: the polling loop ends whatever statuses the API returns: at most
\* max_wait / interval status checks are made for an extract (30 in
\* download_ipums_data and download_nhgis_data, 120 in
\* download_ipums_pr_specific_data), a 'completed' returned by the last of
\* them leads to the download, and the function returns.
C12_PollingTerminates ==
    /\ [](/\ check_count <= MaxChecks(script)
          /\ wait_time <= MaxWait(script)
          /\ MaxChecks("download_ipums_data") = 30
          /\ MaxChecks("download_nhgis_data") = 30
          /\ MaxChecks("download_ipums_pr_specific_data") = 120)
    /\ [][ (/\ check_count' = check_count + 1
            /\ check_count' = MaxChecks(script)
            /\ status' = "completed") => pc' = "download" ]_vars
    /\ <>(pc = "done")

\* the 120th check of the 2021 extract returned 'completed'
C12_Witness ==
    /\ script = "download_ipums_pr_specific_data"
    /\ pc = "download"
    /\ status = "completed"
    /\ check_count = 120
    /\ wait_time = MaxWait(script) - Interval(script)

\* C19: with API_KEY left at 'YOUR_API_KEY_HERE' each of the three download
\* functions prints an error and returns: no client is made, no directory is
\* created, no extract is submitted.
C19_MissingKeyReturnsFirst ==
    (script \in IpumsScripts /\ api_key = "YOUR_API_KEY_HERE" /\ pc # "start") =>
        /\ pc = "done"
        /\ printed # <<>>
        /\ called = <<>>
        /\ requested = <<>>
        /\ \A y \in DOMAIN downloaded : ~downloaded[y].exists
        /\ \A o \in DOMAIN files : ~files[o].exists

\* download_nhgis_data has returned on the placeholder key
C19_Witness ==
    /\ script = "download_nhgis_data"
    /\ api_key = "YOUR_API_KEY_HERE"
    /\ pc = "done"
    /\ Len(printed) = 1

---------------------------------------------------------------------------
(* The chart scripts.  A chart function is an operator from the files it   *)
(* finds to what it did: the HTML files it wrote, the messages it printed, *)
(* and whether it ended by raising.  A path with a * stands for a glob     *)
(* that matches; a CSV that exists carries every column its download       *)
(* script writes, except where a fact about its content is in fs.          *)

Returned(h, p) == [raised |-> FALSE, html |-> h, printed |-> p]
Raised(h, p) == [raised |-> TRUE, html |-> h, printed |-> p]

\* pr_economic_combined.csv has a column of the series
HasColumn(c) == "pr_economic_combined.csv:" \o c

PopFiles == "data/census_acs5/acs5_puerto_rican_pop_*.csv"
CombinedFile == "data/puerto_rico_economic/pr_economic_combined.csv"

\* the columns of the combined file
CombinedColumns(f) == { c \in {"unemployment_rate", "gdp"} : HasColumn(c) \in f }

\* pd.concat of the frames read from the files a glob matched: ValueError
\* when it matched none
Concat(matched, f) == matched \in f

\* generate_housing_visualizations without the test of housing_files
generate_housing_visualizations_unguarded(f) ==
    IF "data/census_acs5_housing" \notin f
    THEN Returned({}, <<"Housing data directory not found. Run download_housing_data.py first.">>)
    ELSE IF ~Concat("data/census_acs5_housing/acs5_housing_*.csv", f)
    THEN Raised({}, <<>>)
    ELSE Returned({"graph_housing_rent.html", "graph_housing_value.html"},
                  <<"Generated housing cost visualizations">>)

generate_housing_visualizations(f) ==
    IF "data/census_acs5_housing" \notin f
    THEN Returned({}, <<"Housing data directory not found. Run download_housing_data.py first.">>)
    ELSE IF "data/census_acs5_housing/acs5_housing_*.csv" \notin f
    THEN Returned({}, <<"No housing data files found.">>)
    ELSE IF ~Concat("data/census_acs5_housing/acs5_housing_*.csv", f)
    THEN Raised({}, <<>>)
    ELSE Returned({"graph_housing_rent.html", "graph_housing_value.html"},
                  <<"Generated housing cost visualizations">>)

generate_poverty_visualizations(f) ==
    IF "data/census_acs5_poverty" \notin f
    THEN Returned({}, <<"Poverty data directory not found. Run download_poverty_data.py first.">>)
    ELSE IF "data/census_acs5_poverty/acs5_poverty_*.csv" \notin f
    THEN Returned({}, <<"No poverty data files found.">>)
    ELSE IF ~Concat("data/census_acs5_poverty/acs5_poverty_*.csv", f)
    THEN Raised({}, <<>>)
    ELSE Returned({"graph_poverty_rates.html"}, <<"Generated poverty rate visualizations">>)

generate_migration_visualizations(f) ==
    IF "data/census_acs5_migration" \notin f
    THEN Returned({}, <<"Migration data directory not found. Run download_year_of_arrival_data.py first.">>)
    ELSE IF "data/census_acs5_migration/acs5_migration_*.csv" \notin f
    THEN Returned({}, <<"No migration data files found.">>)
    ELSE IF ~Concat("data/census_acs5_migration/acs5_migration_*.csv", f)
    THEN Raised({}, <<>>)
    ELSE Returned({"graph_migration_rate.html", "graph_interstate_migration.html"},
                  <<"Generated migration visualizations">>)

\* the three graphs of pr_econ_df, each under its test of the columns
EconomicGraphs(columns) ==
    (IF "unemployment_rate" \in columns THEN {"graph_pr_unemployment.html"} ELSE {})
    \cup (IF "gdp" \in columns THEN {"graph_pr_gdp.html"} ELSE {})
    \cup (IF {"unemployment_rate", "gdp"} \subseteq columns
          THEN {"graph_pr_economic_combined.html"} ELSE {})

generate_pr_economic_visualizations(f) ==
    IF "data/puerto_rico_economic" \notin f
    THEN Returned({}, <<"Puerto Rico economic data directory not found. Run download_puerto_rico_economic_data.py first.">>)
    ELSE IF CombinedFile \in f
    THEN Returned(EconomicGraphs(CombinedColumns(f)),
                  <<"Generated Puerto Rico economic visualizations">>)
    ELSE IF \/ "data/puerto_rico_economic/pr_unemployment_rate.csv" \notin f
            \/ "data/puerto_rico_economic/pr_gdp.csv" \notin f
    THEN Returned({}, <<"Puerto Rico economic data files not found.">>)
    ELSE Returned(EconomicGraphs({"unemployment_rate", "gdp"}),
                  <<"Generated Puerto Rico economic visualizations">>)

generate_migration_economic_correlation(f) ==
    IF CombinedFile \notin f
    THEN Returned({}, <<"Puerto Rico economic data not found. Skipping correlation visualization.">>)
    ELSE IF PopFiles \notin f
    THEN Returned({}, <<"Puerto Rican population data not found. Skipping correlation visualization.">>)
    ELSE IF ~Concat(PopFiles, f)
    THEN Raised({}, <<>>)
    ELSE IF "unemployment_rate" \in CombinedColumns(f)
    THEN Returned({"graph_migration_economic_correlation.html"},
                  <<"Generated migration-economic correlation visualization">>)
    ELSE Returned({}, <<>>)

\* generate_improved_visualizations.py

\* pd.read_csv(path): FileNotFoundError when the file is not there
ReadCsv(path, f) == path \in f

UsaFile == "data/usa_00001.csv"
\* len(scatter_df) > 2 holds of the merged frame
EnoughYears == "len(scatter_df) > 2"

generate_merged_population_chart(f) ==
    IF ~ReadCsv(UsaFile, f) THEN Raised({}, <<>>)
    ELSE IF PopFiles \in f
    THEN Returned({"graph_merged_population.html"},
                  <<"Generated merged population chart (Total vs Island-Born)">>)
    ELSE Returned({}, <<"Census ACS5 data not found. Skipping merged population chart.">>)

generate_state_percent_share_chart(f) ==
    IF PopFiles \notin f
    THEN Returned({}, <<"Census ACS5 data not found. Skipping state percent share chart.">>)
    ELSE Returned({"graph_state_percent_share.html"}, <<"Generated state percent share chart">>)

generate_population_pyramid(f) ==
    IF ~ReadCsv(UsaFile, f) THEN Raised({}, <<>>)
    ELSE Returned({"graph_population_pyramid.html"}, <<"Generated population pyramid">>)

generate_economic_scatter_plot(f) ==
    IF CombinedFile \notin f
    THEN Returned({}, <<"Puerto Rico economic data not found. Skipping scatter plot.">>)
    ELSE IF PopFiles \notin f
    THEN Returned({}, <<"Puerto Rican population data not found. Skipping scatter plot.">>)
    ELSE IF "unemployment_rate" \notin CombinedColumns(f)
    THEN Returned({}, <<"Unemployment rate data not found in economic data">>)
    ELSE IF EnoughYears \in f
    THEN Returned({"graph_economic_scatter.html"},
                  <<"Generated economic scatter plot with regression line">>)
    ELSE Returned({}, <<"Insufficient data for scatter plot">>)

\* generate_pr_specific_visualizations.py

PrKeys ==
    {"poverty", "housing", "income", "education", "employment", "language",
     "family", "demographics"}
PrFile(k) == "data/ipums_pr_specific/ipums_pr_" \o k \o "_2021.csv"
HispanicPovertyFile == "data/census_acs5_hispanic_comparison/acs5_hispanic_poverty_2021.csv"
HispanicHousingFile == "data/census_acs5_hispanic_comparison/acs5_hispanic_housing_value_2021.csv"
PopFile2021 == "data/census_acs5/acs5_puerto_rican_pop_2021.csv"

\* the keys of the dict each loader returns; pop_data is not None
load_pr_data(f) == { k \in PrKeys : PrFile(k) \in f }
load_hispanic_comparison_data(f) ==
    (IF HispanicPovertyFile \in f THEN {"poverty"} ELSE {})
    \cup (IF HispanicHousingFile \in f THEN {"housing_value"} ELSE {})
load_pr_population_data(f) == PopFile2021 \in f

\* the dtype of the state column: pd.read_csv parses the FIPS codes as
\* integers; load_pr_population_data makes them strings again
CsvStateDtype == "int64"
PopStateDtype == "object"

\* if key in pr_data: one chart and one message
ChartIf(cond, file, msg) == IF cond THEN Returned({file}, <<msg>>) ELSE Returned({}, <<>>)
Then(a, b) == Returned(a.html \cup b.html, a.printed \o b.printed)

generate_state_comparison_visualizations(pr_data) ==
    Then(Then(ChartIf("poverty" \in pr_data, "graph_pr_poverty_by_state.html",
                      "Generated: Poverty rates by state"),
              ChartIf("income" \in pr_data, "graph_pr_income_by_state.html",
                      "Generated: Income by state")),
         Then(ChartIf("housing" \in pr_data, "graph_pr_housing_scatter.html",
                      "Generated: Housing costs scatter plot"),
              ChartIf("employment" \in pr_data, "graph_pr_unemployment_by_state.html",
                      "Generated: Unemployment rates by state")))

generate_comparison_visualizations(pr_data, hispanic_data) ==
    ChartIf("poverty" \in pr_data /\ "poverty" \in hispanic_data,
            "graph_pr_vs_hispanic_poverty.html",
            "Generated: PR vs Hispanic poverty comparison")

\* the columns of merged when the merges are done
MergedColumns(pr_data, pop_data) ==
    {"NAME", "state", "median_income", "total_population"}
    \cup (IF "housing" \in pr_data THEN {"median_rent", "median_home_value"} ELSE {})
    \cup (IF "poverty" \in pr_data THEN {"poverty_rate"} ELSE {})
    \cup (IF pop_data THEN {"pr_population", "log_population"} ELSE {})

generate_correlation_analysis(pr_data, pop_data) ==
    IF "income" \notin pr_data THEN Returned({}, <<>>)
    \* merged.merge(pop_df, on='state'): ValueError on an int64 and an object key
    ELSE IF pop_data /\ CsvStateDtype # PopStateDtype THEN Raised({}, <<>>)
    \* merged.dropna(subset=[...]): KeyError on a column that is not there
    ELSE IF ~({"median_income", "median_rent", "pr_population"}
                \subseteq MergedColumns(pr_data, pop_data))
    THEN Raised({}, <<>>)
    \* px.scatter(..., color='poverty_rate'): ValueError on a missing column
    ELSE IF "poverty_rate" \notin MergedColumns(pr_data, pop_data) THEN Raised({}, <<>>)
    ELSE Returned({"graph_pr_income_rent_correlation.html",
                   "graph_pr_population_income_correlation.html",
                   "graph_pr_correlation_matrix.html"},
                  <<"Generated: Income vs Rent correlation",
                    "Generated: Population vs Income correlation",
                    "Generated: Correlation matrix">>)

\* the columns of metrics[0], {} when metrics is empty
DashboardColumns(pr_data) ==
    LET income == IF "income" \in pr_data THEN {"NAME", "state", "median_income"} ELSE {}
        poverty == IF "poverty" \notin pr_data THEN income
                   ELSE IF income # {} THEN income \cup {"poverty_rate"}
                   ELSE {"NAME", "state", "poverty_rate"}
        housing == IF "housing" \notin pr_data THEN poverty
                   ELSE IF poverty # {} THEN poverty \cup {"median_rent"}
                   ELSE {"state", "median_rent"}
    IN  IF "employment" \in pr_data /\ housing # {}
        THEN housing \cup {"unemployment_rate"}
        ELSE housing

generate_state_dashboard(pr_data) ==
    IF DashboardColumns(pr_data) = {} THEN Returned({}, <<>>)
    \* dashboard_df.dropna(subset=['NAME']): KeyError
    ELSE IF "NAME" \notin DashboardColumns(pr_data) THEN Raised({}, <<>>)
    ELSE Returned({"graph_pr_state_dashboard.html"}, <<"Generated: State dashboard">>)

---------------------------------------------------------------------------
(* A run of a chart script: pc is the function __main__ is about to call,  *)
(* "raised" when a call ended the script with a traceback.  The banners    *)
(* __main__ prints around the calls are not kept in printed.               *)

NewDataMain ==
    <<"generate_housing_visualizations", "generate_poverty_visualizations",
      "generate_migration_visualizations", "generate_pr_economic_visualizations",
      "generate_migration_economic_correlation">>
ImprovedMain ==
    <<"generate_merged_population_chart", "generate_state_percent_share_chart",
      "generate_population_pyramid", "generate_economic_scatter_plot">>
PrSpecificMain ==
    <<"load_pr_data", "generate_state_comparison_visualizations",
      "generate_comparison_visualizations", "generate_correlation_analysis",
      "generate_state_dashboard">>

\* the combined file has a column for each series that was downloaded
Coherent(f) ==
    /\ \A c \in {"unemployment_rate", "gdp"} : HasColumn(c) \in f => CombinedFile \in f
    /\ CombinedFile \in f => CombinedColumns(f) # {}
    /\ EnoughYears \in f => {CombinedFile, PopFiles, HasColumn("unemployment_rate")} \subseteq f
    /\ \A d \in {"housing", "poverty", "migration"} :
          ("data/census_acs5_" \o d \o "/acs5_" \o d \o "_*.csv") \in f
              => ("data/census_acs5_" \o d) \in f
    /\ \A p \in {CombinedFile, "data/puerto_rico_economic/pr_unemployment_rate.csv",
                 "data/puerto_rico_economic/pr_gdp.csv"} :
          p \in f => "data/puerto_rico_economic" \in f

NewDataInputs ==
    { "data/census_acs5_housing", "data/census_acs5_housing/acs5_housing_*.csv",
      "data/census_acs5_poverty", "data/census_acs5_poverty/acs5_poverty_*.csv",
      "data/census_acs5_migration", "data/census_acs5_migration/acs5_migration_*.csv",
      "data/puerto_rico_economic", CombinedFile,
      "data/puerto_rico_economic/pr_unemployment_rate.csv",
      "data/puerto_rico_economic/pr_gdp.csv",
      HasColumn("unemployment_rate"), HasColumn("gdp"), PopFiles }
ImprovedInputs ==
    { UsaFile, PopFiles, "data/puerto_rico_economic", CombinedFile,
      HasColumn("unemployment_rate"), HasColumn("gdp"), EnoughYears }
PrSpecificInputs ==
    { PrFile(k) : k \in PrKeys } \cup {HispanicPovertyFile, HispanicHousingFile, PopFile2021}

VizInit ==
    /\ \/ /\ script = "generate_new_data_visualizations"
          /\ pc = NewDataMain[1]
          /\ fs \in { f \in SUBSET NewDataInputs : Coherent(f) }
       \/ /\ script = "generate_improved_visualizations"
          /\ pc = ImprovedMain[1]
          /\ fs \in { f \in SUBSET ImprovedInputs : Coherent(f) }
       \/ /\ script = "generate_pr_specific_visualizations"
          /\ pc = PrSpecificMain[1]
          /\ fs \in SUBSET PrSpecificInputs
    /\ html = {}
    /\ printed = <<>>
    /\ called = <<>>
    /\ year = FirstYear /\ api = <<>> /\ files = <<>> /\ requested = <<>> /\ failed = {}
    /\ IpumsIdle
    /\ FirstRun
    /\ NoCall

\* the function __main__ is about to call does r; next is the call after it
Call(r, next) ==
    /\ called' = Append(called, pc)
    /\ html' = html \cup r.html
    /\ printed' = printed \o r.printed
    /\ pc' = IF r.raised THEN "raised" ELSE next
    /\ UNCHANGED <<script, year, api, files, requested, failed, ipumsVars, fs, censusVars, returned>>

GenerateHousingVisualizations ==
    /\ pc = NewDataMain[1]
    /\ Call(generate_housing_visualizations(fs), NewDataMain[2])
GeneratePovertyVisualizations ==
    /\ pc = NewDataMain[2]
    /\ Call(generate_poverty_visualizations(fs), NewDataMain[3])
GenerateMigrationVisualizations ==
    /\ pc = NewDataMain[3]
    /\ Call(generate_migration_visualizations(fs), NewDataMain[4])
GeneratePrEconomicVisualizations ==
    /\ pc = NewDataMain[4]
    /\ Call(generate_pr_economic_visualizations(fs), NewDataMain[5])
GenerateMigrationEconomicCorrelation ==
    /\ pc = NewDataMain[5]
    /\ Call(generate_migration_economic_correlation(fs), "done")

GenerateMergedPopulationChart ==
    /\ pc = ImprovedMain[1]
    /\ Call(generate_merged_population_chart(fs), ImprovedMain[2])
GenerateStatePercentShareChart ==
    /\ pc = ImprovedMain[2]
    /\ Call(generate_state_percent_share_chart(fs), ImprovedMain[3])
GeneratePopulationPyramid ==
    /\ pc = ImprovedMain[3]
    /\ Call(generate_population_pyramid(fs), ImprovedMain[4])
GenerateEconomicScatterPlot ==
    /\ pc = ImprovedMain[4]
    /\ Call(generate_economic_scatter_plot(fs), "done")

\* pr_data, hispanic_data and pop_data are loaded
LoadData ==
    /\ pc = PrSpecificMain[1]
    /\ Call(Returned({}, <<>>), PrSpecificMain[2])
GenerateStateComparisonVisualizations ==
    /\ pc = PrSpecificMain[2]
    /\ Call(generate_state_comparison_visualizations(load_pr_data(fs)),
            PrSpecificMain[3])
GenerateComparisonVisualizations ==
    /\ pc = PrSpecificMain[3]
    /\ Call(generate_comparison_visualizations(load_pr_data(fs),
                                               load_hispanic_comparison_data(fs)),
            PrSpecificMain[4])
GenerateCorrelationAnalysis ==
    /\ pc = PrSpecificMain[4]
    /\ Call(generate_correlation_analysis(load_pr_data(fs), load_pr_population_data(fs)),
            PrSpecificMain[5])
GenerateStateDashboard ==
    /\ pc = PrSpecificMain[5]
    /\ Call(generate_state_dashboard(load_pr_data(fs)), "done")

VizNext ==
    \/ GenerateHousingVisualizations \/ GeneratePovertyVisualizations
    \/ GenerateMigrationVisualizations \/ GeneratePrEconomicVisualizations
    \/ GenerateMigrationEconomicCorrelation
    \/ GenerateMergedPopulationChart \/ GenerateStatePercentShareChart
    \/ GeneratePopulationPyramid \/ GenerateEconomicScatterPlot
    \/ LoadData \/ GenerateStateComparisonVisualizations
    \/ GenerateComparisonVisualizations \/ GenerateCorrelationAnalysis
    \/ GenerateStateDashboard

VizSpec == VizInit /\ [][VizNext]_vars

---------------------------------------------------------------------------
(* Properties of the chart scripts *)

IsPrefix(a, b) == Len(a) <= Len(b) /\ \A i \in 1 .. Len(a) : a[i] = b[i]
Printed(messages) == \E i \in 1 .. Len(printed) : printed[i] \in messages
Dir(d) == "data/census_acs5_" \o d
Glob(d) == "data/census_acs5_" \o d \o "/acs5_" \o d \o "_*.csv"

\* the i-th chart function of generate_new_data_visualizations: the HTML files
\* it can write, whether its input directory and CSV files exist, and the
\* messages it prints when they do not
NewDataOutputs(i) ==
    CASE i = 1 -> {"graph_housing_rent.html", "graph_housing_value.html"}
      [] i = 2 -> {"graph_poverty_rates.html"}
      [] i = 3 -> {"graph_migration_rate.html", "graph_interstate_migration.html"}
      [] i = 4 -> {"graph_pr_unemployment.html", "graph_pr_gdp.html",
                   "graph_pr_economic_combined.html"}
      [] i = 5 -> {"graph_migration_economic_correlation.html"}
NewDataInputsExist(i) ==
    CASE i = 1 -> {Dir("housing"), Glob("housing")} \subseteq fs
      [] i = 2 -> {Dir("poverty"), Glob("poverty")} \subseteq fs
      [] i = 3 -> {Dir("migration"), Glob("migration")} \subseteq fs
      [] i = 4 -> /\ "data/puerto_rico_economic" \in fs
                  /\ \/ CombinedFile \in fs
                     \/ {"data/puerto_rico_economic/pr_unemployment_rate.csv",
                         "data/puerto_rico_economic/pr_gdp.csv"} \subseteq fs
      [] i = 5 -> {CombinedFile, PopFiles} \subseteq fs
NewDataMessages(i) ==
    CASE i = 1 -> {"Housing data directory not found. Run download_housing_data.py first.",
                   "No housing data files found."}
      [] i = 2 -> {"Poverty data directory not found. Run download_poverty_data.py first.",
                   "No poverty data files found."}
      [] i = 3 -> {"Migration data directory not found. Run download_year_of_arrival_data.py first.",
                   "No migration data files found."}
      [] i = 4 -> {"Puerto Rico economic data directory not found. Run download_puerto_rico_economic_data.py first.",
                   "Puerto Rico economic data files not found."}
      [] i = 5 -> {"Puerto Rico economic data not found. Skipping correlation visualization.",
                   "Puerto Rican population data not found. Skipping correlation visualization."}

\* C8: each chart function of generate_new_data_visualizations writes its HTML
\* files only if its input directory and CSV files exist; when they are missing
\* it prints a message and returns without raising and without writing any
\* HTML, and the chart functions after it still run, so the script ends having
\* called all five.
C8_NewDataChartsDegradeGracefully ==
    script = "generate_new_data_visualizations" =>
        /\ pc # "raised"
        /\ IsPrefix(called, NewDataMain)
        /\ pc = "done" => called = NewDataMain
        /\ \A i \in 1 .. Len(NewDataMain) :
              /\ html \cap NewDataOutputs(i) # {} => NewDataInputsExist(i)
              /\ (i <= Len(called) /\ ~NewDataInputsExist(i)) =>
                    /\ html \cap NewDataOutputs(i) = {}
                    /\ Printed(NewDataMessages(i))

\* the housing directory is missing and the migration files are missing from
\* their directory; both functions said so, and the poverty and economic charts
\* after them were written
C8_Witness ==
    /\ script = "generate_new_data_visualizations"
    /\ pc = "done"
    /\ Dir("housing") \notin fs
    /\ Dir("migration") \in fs /\ Glob("migration") \notin fs
    /\ Printed({"Housing data directory not found. Run download_housing_data.py first."})
    /\ Printed({"No migration data files found."})
    /\ {"graph_poverty_rates.html", "graph_pr_gdp.html"} \subseteq html

\* C9: generate_improved_visualizations degrades gracefully when input files
\* are missing: no chart function raises, one whose inputs (data/usa_00001.csv,
\* the ACS population CSVs, pr_economic_combined.csv) are absent prints a
\* message and writes nothing, and the script ends having called all four.
C9_ImprovedChartsDegradeGracefully ==
    script = "generate_improved_visualizations" =>
        /\ pc # "raised"
        /\ pc = "done" => called = ImprovedMain
        /\ (Len(called) >= 1 /\ ~({UsaFile, PopFiles} \subseteq fs)) =>
              "graph_merged_population.html" \notin html /\ printed # <<>>
        /\ (Len(called) >= 3 /\ UsaFile \notin fs) =>
              "graph_population_pyramid.html" \notin html

\* the charts generate_pr_specific_visualizations writes from a loaded data set
PrSpecificCharts(k) ==
    CASE k = "poverty" -> {"graph_pr_poverty_by_state.html", "graph_pr_vs_hispanic_poverty.html"}
      [] k = "income" -> {"graph_pr_income_by_state.html", "graph_pr_income_rent_correlation.html",
                          "graph_pr_population_income_correlation.html",
                          "graph_pr_correlation_matrix.html"}
      [] k = "housing" -> {"graph_pr_housing_scatter.html"}
      [] k = "employment" -> {"graph_pr_unemployment_by_state.html"}
      [] OTHER -> {}

\* C10: with any subset of its input files present,
\* generate_pr_specific_visualizations writes only charts whose inputs were
\* loaded and finishes without raising, having called every chart function.
C10_PrSpecificFinishesWithoutRaising ==
    script = "generate_pr_specific_visualizations" =>
        /\ pc # "raised"
        /\ pc = "done" => called = PrSpecificMain
        /\ \A k \in PrKeys : html \cap PrSpecificCharts(k) # {} => PrFile(k) \in fs

=============================================================================
